---- MODULE Spec2Model ----
(***************************************************************************)
(* Model of the ClipForge clip compiler: layout resolution (layouts.py),   *)
(* easing curves (animation_curves.py) and the render-plan builder         *)
(* (renderer_v2.py).                                                       *)
(*                                                                         *)
(* Python strings that the code normalises (strip, lower, endswith) are    *)
(* sequences of one-character strings, so that the normalisation is        *)
(* computed.  A Python None string and "" are both the empty sequence      *)
(* where the code only reads them through `x or default`.                  *)
(* Engine expressions (the strings handed to the compositor) are syntax    *)
(* trees: Rat, V, Bin, IfE, Lt, Between.  Times are integers counting units *)
(* of 0.000025 s (UNITS to the second, MIN_SPAN to 0.0001 s).              *)
(***************************************************************************)
EXTENDS Integers, Sequences, FiniteSets, TLC

VARIABLES lay, img, clip, ease, call

vars == <<lay, img, clip, ease, call>>

-----------------------------------------------------------------------------
(* Strings *)

UpperChars == <<"A","B","C","D","E","F","G","H","I","J","K","L","M",
                "N","O","P","Q","R","S","T","U","V","W","X","Y","Z">>

LowerChars == <<"a","b","c","d","e","f","g","h","i","j","k","l","m",
                "n","o","p","q","r","s","t","u","v","w","x","y","z">>

WhiteChars == {" ", "\t", "\n"}

LowerChar(c) ==
    IF \E i \in 1..Len(UpperChars) : UpperChars[i] = c
    THEN LowerChars[CHOOSE i \in 1..Len(UpperChars) : UpperChars[i] = c]
    ELSE c

\* str.lower()
StrLower(s) == [i \in 1..Len(s) |-> LowerChar(s[i])]

RECURSIVE LStrip(_)
LStrip(s) == IF s # <<>> /\ Head(s) \in WhiteChars THEN LStrip(Tail(s)) ELSE s

RECURSIVE RStrip(_)
RStrip(s) ==
    IF s # <<>> /\ s[Len(s)] \in WhiteChars
    THEN RStrip(SubSeq(s, 1, Len(s) - 1))
    ELSE s

\* str.strip()
StrStrip(s) == RStrip(LStrip(s))

\* str.endswith(suffix)
EndsWith(s, suffix) ==
    /\ Len(s) >= Len(suffix)
    /\ SubSeq(s, Len(s) - Len(suffix) + 1, Len(s)) = suffix

\* (x or default)
OrDefault(s, default) == IF s = <<>> THEN default ELSE s

\* int(a / b) for b > 0: truncation towards zero
TruncDiv(a, b) == IF a >= 0 THEN a \div b ELSE -((-a) \div b)

Max2(a, b) == IF a >= b THEN a ELSE b

Min2(a, b) == IF a <= b THEN a ELSE b

-----------------------------------------------------------------------------
(* Engine expressions *)

\* a decimal literal n/d
Rat(n, d) == [k |-> "num", n |-> n, d |-> d]

Num(n) == Rat(n, 1)

V(name) == [k |-> "var", name |-> name]

Bin(op, a, b) == [k |-> op, a |-> a, b |-> b]

Add(a, b) == Bin("add", a, b)

Sub(a, b) == Bin("sub", a, b)

Mul(a, b) == Bin("mul", a, b)

Div(a, b) == Bin("div", a, b)

Neg(a) == [k |-> "neg", a |-> a]

Lt(a, b) == Bin("lt", a, b)

IfE(c, a, b) == [k |-> "if", c |-> c, a |-> a, b |-> b]

Between(x, lo, hi) == [k |-> "between", x |-> x, lo |-> lo, hi |-> hi]

MinE(a, b) == Bin("min", a, b)

MaxE(a, b) == Bin("max", a, b)

SinE(a) == [k |-> "sin", a |-> a]

-----------------------------------------------------------------------------
(* config.py *)

OUT_W == 1920

OUT_H == 1080

FPS == 25

SAFE_H == 864

STICKMAN_SCALE_TENTHS == 6

\* int(1024 * STICKMAN_SCALE)
STICKMAN_SIZE == (1024 * STICKMAN_SCALE_TENTHS) \div 10

STICKMAN_MARGIN_X == 25

RESERVED_LEFT == STICKMAN_MARGIN_X + STICKMAN_SIZE + 40

RIGHT_MARGIN == 100

CONTENT_H == SAFE_H

\* layouts.py imports LEFT_MARGIN and RESERVED_RIGHT from config, which does
\* not set them; they mirror the left-side reservation, as the layout
\* description states ("reserves a left or right margin ... depending on side;
\* width = frame width - reserved side - opposite margin").
LEFT_MARGIN == RIGHT_MARGIN

RESERVED_RIGHT == RESERVED_LEFT

-----------------------------------------------------------------------------
(* layouts.py *)

S_left == <<"l","e","f","t">>

S_right == <<"r","i","g","h","t">>

L_legacy_single == <<"l","e","g","a","c","y","_","s","i","n","g","l","e">>

L_image_center_only ==
    <<"i","m","a","g","e","_","c","e","n","t","e","r","_","o","n","l","y">>

L_stickman_center_only ==
    <<"s","t","i","c","k","m","a","n","_","c","e","n","t","e","r","_","o","n","l","y">>

L_two_images_center ==
    <<"t","w","o","_","i","m","a","g","e","s","_","c","e","n","t","e","r">>

L_stickman_left_3img ==
    <<"s","t","i","c","k","m","a","n","_","l","e","f","t","_","3","i","m","g">>

ImageSlot(w, h, x, y) == [target_w |-> w, target_h |-> h, x_expr |-> x, y_expr |-> y]

\* stickman_pos is <<>> for None and <<x, y>> otherwise
LayoutResult(name, slots, pos) ==
    [name |-> name, image_slots |-> slots, stickman_pos |-> pos]

CenterX == Div(Sub(V("W"), V("w")), Num(2))

CenterY == Div(Sub(V("H"), V("h")), Num(2))

_normalize_stickman_side(stickman_side) ==
    LET side == StrLower(StrStrip(OrDefault(stickman_side, S_left)))
    IN  IF side = S_right THEN S_right ELSE S_left

_content_area_NoReserve(use_stickman, stickman_side) == <<0, OUT_W>>

\* returns <<content_x, content_w>>
_content_area(use_stickman, stickman_side) ==
    IF ~use_stickman THEN <<0, OUT_W>>
    ELSE IF _normalize_stickman_side(stickman_side) = S_right
         THEN <<LEFT_MARGIN, OUT_W - LEFT_MARGIN - RESERVED_RIGHT>>
         ELSE <<RESERVED_LEFT, OUT_W - RESERVED_LEFT - RIGHT_MARGIN>>

_stickman_position(use_stickman, stickman_side) ==
    IF ~use_stickman THEN <<>>
    ELSE IF _normalize_stickman_side(stickman_side) = S_right
         THEN <<Sub(Sub(V("W"), V("w")), Num(STICKMAN_MARGIN_X)), CenterY>>
         ELSE <<Num(STICKMAN_MARGIN_X), CenterY>>

_legacy_single(use_stickman, stickman_side) ==
    LET area      == _content_area(use_stickman, stickman_side)
        content_x == area[1]
        content_w == area[2]
        slot == IF use_stickman
                THEN ImageSlot(content_w, CONTENT_H,
                               Add(Num(content_x),
                                   Div(Sub(Num(content_w), V("w")), Num(2))),
                               CenterY)
                ELSE ImageSlot(OUT_W, SAFE_H, CenterX, CenterY)
    IN  LayoutResult(L_legacy_single, <<slot>>,
                     _stickman_position(use_stickman, stickman_side))

_image_center_only ==
    LayoutResult(L_image_center_only,
                 <<ImageSlot(OUT_W, SAFE_H, CenterX, CenterY)>>, <<>>)

_stickman_center_only(use_stickman) ==
    LayoutResult(L_stickman_center_only, <<>>,
                 IF use_stickman THEN <<CenterX, CenterY>> ELSE <<>>)

TwoImagesGap == 40

TwoSlotWidthGapOutside(total_w, gap) == TruncDiv(total_w, 2) - gap

\* line 98: int((total_w - gap) / 2)
TwoSlotWidth(total_w, gap) == TruncDiv(total_w - gap, 2)

_two_images_center(use_stickman, stickman_side) ==
    LET gap      == TwoImagesGap
        area     == IF use_stickman
                    THEN _content_area(use_stickman, stickman_side)
                    ELSE <<0, OUT_W>>
        offset_x == area[1]
        total_w  == area[2]
        slot_w   == TwoSlotWidth(total_w, gap)
        slot_h   == SAFE_H
        left_x   == offset_x + TruncDiv(total_w - (2 * slot_w + gap), 2)
        right_x  == left_x + slot_w + gap
    IN  LayoutResult(L_two_images_center,
                     <<ImageSlot(slot_w, slot_h, Num(left_x), CenterY),
                       ImageSlot(slot_w, slot_h, Num(right_x), CenterY)>>,
                     _stickman_position(use_stickman, stickman_side))

ThreeImagesGap == 24

_stickman_left_3img(use_stickman, stickman_side) ==
    LET area      == _content_area(use_stickman, stickman_side)
        content_x == area[1]
        content_w == area[2]
        gap       == ThreeImagesGap
        slot_w    == content_w
        slot_h    == TruncDiv(SAFE_H - 2 * gap, 3)
        total_h   == slot_h * 3 + gap * 2
        top_y     == TruncDiv(OUT_H - total_h, 2)
        x_expr    == Add(Num(content_x),
                         Div(Sub(Num(content_w), Num(slot_w)), Num(2)))
    IN  LayoutResult(L_stickman_left_3img,
                     <<ImageSlot(slot_w, slot_h, x_expr, Num(top_y)),
                       ImageSlot(slot_w, slot_h, x_expr, Num(top_y + slot_h + gap)),
                       ImageSlot(slot_w, slot_h, x_expr,
                                 Num(top_y + (slot_h + gap) * 2))>>,
                     _stickman_position(use_stickman, stickman_side))

(* Warnings: the message text is its kind plus the values formatted into it *)

WIgnoresStickman == [kind |-> "ignores_stickman", layout |-> L_image_center_only]

WRightIgnored(layout_name) == [kind |-> "right_ignored", layout |-> layout_name]

WInsufficient(layout, image_count) ==
    [kind |-> "insufficient_images", layout |-> layout.name,
     expected |-> Len(layout.image_slots), received |-> image_count]

WNoStickman(layout_name) == [kind |-> "no_stickman_fallback", layout |-> layout_name]

WUnknownLayoutNormalized(layout_name) ==
    [kind |-> "unknown_layout",
     layout |-> StrLower(StrStrip(layout_name))]

WUnknownLayout(layout_name) == [kind |-> "unknown_layout", layout |-> layout_name]

InsufficientCheckSilent(layout, image_count) == <<>>

\* lines 176-180: the trailing insufficient-images check
InsufficientCheck(layout, image_count) ==
    IF image_count < Len(layout.image_slots)
    THEN <<WInsufficient(layout, image_count)>>
    ELSE <<>>

LayoutReturn(layout, warnings) == [layout |-> layout, warnings |-> warnings]

\* line 139: (layout_name or "legacy_single").strip().lower()
NormalizeLayoutName(layout_name) ==
    StrLower(StrStrip(OrDefault(layout_name, L_legacy_single)))

NoStickmanFallbackChecked(layout_name, image_count, normalized_side) ==
    LET layout == _legacy_single(FALSE, normalized_side)
    IN  LayoutReturn(layout, <<WNoStickman(layout_name)>>
                             \o InsufficientCheck(layout, image_count))

\* lines 156-158 and 166-168: early return of the default layout
NoStickmanFallback(layout_name, image_count, normalized_side) ==
    LayoutReturn(_legacy_single(FALSE, normalized_side),
                 <<WNoStickman(layout_name)>>)

resolve_layout(layout_name, use_stickman, image_count, stickman_side) ==
    LET normalized      == NormalizeLayoutName(layout_name)
        normalized_side == _normalize_stickman_side(stickman_side)
    IN  IF normalized = L_image_center_only THEN
            LET layout == _image_center_only
            IN  LayoutReturn(layout,
                    (IF use_stickman THEN <<WIgnoresStickman>> ELSE <<>>)
                 \o (IF use_stickman /\ normalized_side = S_right
                     THEN <<WRightIgnored(L_image_center_only)>> ELSE <<>>)
                 \o InsufficientCheck(layout, image_count))
        ELSE IF normalized = L_stickman_center_only THEN
            IF ~use_stickman
            THEN NoStickmanFallback(L_stickman_center_only, image_count,
                                    normalized_side)
            ELSE LayoutReturn(_stickman_center_only(TRUE),
                              IF normalized_side = S_right
                              THEN <<WRightIgnored(L_stickman_center_only)>>
                              ELSE <<>>)
        ELSE IF normalized = L_two_images_center THEN
            LET layout == _two_images_center(use_stickman, normalized_side)
            IN  LayoutReturn(layout, InsufficientCheck(layout, image_count))
        ELSE IF normalized = L_stickman_left_3img THEN
            IF ~use_stickman
            THEN NoStickmanFallback(L_stickman_left_3img, image_count,
                                    normalized_side)
            ELSE LET layout == _stickman_left_3img(TRUE, normalized_side)
                 IN  LayoutReturn(layout, InsufficientCheck(layout, image_count))
        ELSE IF normalized = L_legacy_single THEN
            LET layout == _legacy_single(use_stickman, normalized_side)
            IN  LayoutReturn(layout, InsufficientCheck(layout, image_count))
        ELSE
            LET layout == _legacy_single(use_stickman, normalized_side)
            IN  LayoutReturn(layout,
                    <<WUnknownLayout(layout_name)>>
                 \o InsufficientCheck(layout, image_count))

-----------------------------------------------------------------------------
(* Inputs of the layout resolver *)

MaxImages == 3

KnownLayouts ==
    {L_legacy_single, L_image_center_only, L_stickman_center_only,
     L_two_images_center, L_stickman_left_3img}

\* "grid": an unknown name; "Grid ": one that lower/strip change
L_grid == <<"g","r","i","d">>

L_Grid_sp == <<"G","r","i","d"," ">>

\* " Two_Images_Center": a known name written with capitals and a blank
L_Two_sp ==
    <<" ","T","w","o","_","I","m","a","g","e","s","_","C","e","n","t","e","r">>

LayoutNames == KnownLayouts \cup {<<>>, L_grid, L_Grid_sp, L_Two_sp}

S_Right_sp == <<"R","i","g","h","t"," ">>

S_center == <<"c","e","n","t","e","r">>

Sides == {<<>>, S_left, S_right, S_Right_sp, S_center}

LayoutCalls ==
    [layout_name : LayoutNames, use_stickman : BOOLEAN,
     image_count : 0..MaxImages, stickman_side : Sides]

LayIdle == [pc |-> "off", args |-> <<>>, ret |-> <<>>]

ImgIdle == [pc |-> "off"]

ClipIdle == [pc |-> "off"]

CallIdle == [fn |-> "idle"]

EaseIdle == [pc |-> "off"]

LayInit ==
    /\ \E a \in LayoutCalls : lay = [pc |-> "call", args |-> <<a>>, ret |-> <<>>]
    /\ img = ImgIdle
    /\ clip = ClipIdle
    /\ ease = EaseIdle
    /\ call = CallIdle

\* one call of resolve_layout
ResolveLayout ==
    /\ lay.pc = "call"
    /\ LET a == lay.args[1]
       IN  lay' = [lay EXCEPT !.pc = "ret",
                              !.ret = <<resolve_layout(a.layout_name, a.use_stickman,
                                                       a.image_count, a.stickman_side)>>]
    /\ UNCHANGED <<img, clip, ease, call>>

LayNext == ResolveLayout

SpecLayout == LayInit /\ [][LayNext]_vars

LayArgs == lay.args[1]

LayRet == lay.ret[1]

LayReturned == lay.pc = "ret"

IsInsufficient(w) == w.kind = "insufficient_images"

HasInsufficient(warnings) ==
    \E i \in 1..Len(warnings) : IsInsufficient(warnings[i])

\* the answer for the default layout called with the same other arguments
DefaultAnswer ==
    resolve_layout(L_legacy_single, LayArgs.use_stickman, LayArgs.image_count,
                   LayArgs.stickman_side)

UnknownNameCall ==
    /\ LayReturned
    /\ NormalizeLayoutName(LayArgs.layout_name) \notin KnownLayouts

\* C2 as stated: an unknown layout name gives the default layout's slots and
\* character anchor and exactly one warning, which carries the name as given,
\* for every image count including 0.
C2_AsStated ==
    UnknownNameCall =>
        /\ LayRet.layout = DefaultAnswer.layout
        /\ Len(LayRet.warnings) = 1
        /\ LayRet.warnings[1] = WUnknownLayout(LayArgs.layout_name)

\* C2 amended: an unknown layout name gives the default layout's slots and
\* character anchor; the first warning is the unknown-name warning carrying the
\* name as given; it is the only warning when the image count is at least 1,
\* and with image count 0 it is followed by one insufficient-images warning.
C2_UnknownLayoutFallback ==
    UnknownNameCall =>
        /\ LayRet.layout = DefaultAnswer.layout
        /\ LayRet.warnings[1].kind = "unknown_layout"
        /\ LayRet.warnings[1].layout = LayArgs.layout_name
        /\ LayArgs.image_count >= 1 => Len(LayRet.warnings) = 1
        /\ LayArgs.image_count = 0 =>
              /\ Len(LayRet.warnings) = 2
              /\ IsInsufficient(LayRet.warnings[2])

C2_Witness ==
    /\ UnknownNameCall
    /\ LayArgs.layout_name = L_Grid_sp
    /\ LayArgs.use_stickman
    /\ LayArgs.image_count = 0
    /\ Len(LayRet.warnings) = 2

\* C3 as stated: whenever the image count is smaller than the number of slots
\* of the returned layout (fallbacks included), the warnings contain an
\* insufficient-images warning.
C3_InsufficientAlwaysWarned ==
    (LayReturned /\ LayArgs.image_count < Len(LayRet.layout.image_slots))
        => HasInsufficient(LayRet.warnings)

TwoImagesNoCharacterCall ==
    /\ LayReturned
    /\ NormalizeLayoutName(LayArgs.layout_name) = L_two_images_center
    /\ ~LayArgs.use_stickman
    /\ LayArgs.image_count = 2

\* C4: two_images_center without character and with two images returns, for
\* every side, exactly two slots of equal width whose widths plus the fixed
\* gap equal the frame width, both with the same y expression.
C4_TwoEqualSlots ==
    TwoImagesNoCharacterCall =>
        LET slots == LayRet.layout.image_slots
        IN  /\ Len(slots) = 2
            /\ slots[1].target_w = slots[2].target_w
            /\ slots[1].target_w + slots[2].target_w + TwoImagesGap = OUT_W
            /\ slots[1].y_expr = slots[2].y_expr

C4_Witness ==
    /\ TwoImagesNoCharacterCall
    /\ LayArgs.stickman_side = S_right
    /\ LayRet.layout.image_slots[1].target_w = 940

ThreeStackedNoCharacterCall ==
    /\ LayReturned
    /\ NormalizeLayoutName(LayArgs.layout_name) = L_stickman_left_3img
    /\ ~LayArgs.use_stickman

\* C5: stickman_left_3img without character returns, for every image count
\* and side, the default layout without character (one slot, no character
\* anchor) and exactly one warning.
C5_ThreeStackedFallsBack ==
    ThreeStackedNoCharacterCall =>
        /\ LayRet.layout = DefaultAnswer.layout
        /\ Len(LayRet.layout.image_slots) = 1
        /\ LayRet.layout.stickman_pos = <<>>
        /\ Len(LayRet.warnings) = 1

C5_Witness ==
    /\ ThreeStackedNoCharacterCall
    /\ LayArgs.image_count = 0
    /\ LayRet.warnings = <<WNoStickman(L_stickman_left_3img)>>

-----------------------------------------------------------------------------
(* ffmpeg_expressions.py, timeline_expressions.py *)

\* the literal 0.0001 (seconds) of max(0.0001, end - start), in time units
MIN_SPAN == 4

\* time units to the second: times are counted in units of 0.000025 s
UNITS == 10000 * MIN_SPAN

_normalize_time_expr_NoClamp(time_var, start, end) ==
    Div(Sub(V(time_var), Num(start)), Num(Max2(MIN_SPAN, end - start)))

\* duration = max(0.0001, end - start); max(0.0,min((t-start)/duration,1.0))
_normalize_time_expr(time_var, start, end) ==
    LET duration == Max2(MIN_SPAN, end - start)
    IN  MaxE(Num(0), MinE(Div(Sub(V(time_var), Num(start)), Num(duration)), Num(1)))

EasingNames ==
    {"linear", "ease_in", "ease_out", "ease_in_out", "cubic_in", "cubic_out",
     "cubic_in_out"}

TwoMinus2T(T) == Add(Mul(Num(-2), T), Num(2))

OneMinus(T) == Sub(Num(1), T)

\* EASING_EXPRESSIONS[name].format(t=T); .get(easing, linear) for other names
EasingExpr(easing, T) ==
    CASE easing = "ease_in"  -> Mul(T, T)
      [] easing = "ease_out" -> Sub(Num(1), Mul(OneMinus(T), OneMinus(T)))
      [] easing = "ease_in_out" ->
            IfE(Lt(T, Rat(5, 10)),
                Mul(Mul(Num(2), T), T),
                Sub(Num(1), Div(Mul(TwoMinus2T(T), TwoMinus2T(T)), Num(2))))
      [] easing = "cubic_in"  -> Mul(Mul(T, T), T)
      [] easing = "cubic_out" ->
            Sub(Num(1), Mul(Mul(OneMinus(T), OneMinus(T)), OneMinus(T)))
      [] easing = "cubic_in_out" ->
            IfE(Lt(T, Rat(5, 10)),
                Mul(Mul(Mul(Num(4), T), T), T),
                Sub(Num(1),
                    Div(Mul(Mul(TwoMinus2T(T), TwoMinus2T(T)), TwoMinus2T(T)),
                        Num(2))))
      [] OTHER -> T

build_eased_value_expr(start_value, end_value, start_time, end_time, easing, time_var) ==
    LET normalized == _normalize_time_expr(time_var, start_time, end_time)
        eased      == EasingExpr(easing, normalized)
    IN  [expr  |-> Add(Num(start_value),
                       Mul(Sub(Num(end_value), Num(start_value)), eased)),
         start |-> start_time,
         end   |-> end_time]

\* a keyframe: value is a function from its keys to numbers
KeyframeSpec(time, value, easing) == [time |-> time, value |-> value, easing |-> easing]

RECURSIVE InsertByTime(_, _)
InsertByTime(kf, ordered) ==
    IF ordered = <<>> THEN <<kf>>
    ELSE IF ordered[Len(ordered)].time <= kf.time THEN Append(ordered, kf)
    ELSE Append(InsertByTime(kf, SubSeq(ordered, 1, Len(ordered) - 1)),
                ordered[Len(ordered)])

\* sorted(keyframes, key=lambda kf: kf.time): stable
RECURSIVE _sorted_keyframes(_)
_sorted_keyframes(keyframes) ==
    IF keyframes = <<>> THEN <<>>
    ELSE InsertByTime(keyframes[Len(keyframes)],
                      _sorted_keyframes(SubSeq(keyframes, 1, Len(keyframes) - 1)))

\* the chain "if(between(t,s,e),expr," ... ",fallback" ")"*n from pair idx on
RECURSIVE PiecewiseFrom(_, _, _, _, _)
PiecewiseFrom(ordered, idx, value_key, fallback, time_var) ==
    IF idx > Len(ordered) - 1 THEN fallback
    ELSE LET start == ordered[idx]
             end   == ordered[idx + 1]
             rest  == PiecewiseFrom(ordered, idx + 1, value_key, fallback, time_var)
         IN  IF value_key \notin DOMAIN start.value \/ value_key \notin DOMAIN end.value
             THEN rest
             ELSE LET eased == build_eased_value_expr(
                                   start.value[value_key], end.value[value_key],
                                   start.time, end.time, start.easing, time_var)
                  IN  IfE(Between(V(time_var), Num(eased.start), Num(eased.end)),
                          eased.expr, rest)

build_piecewise_expr_Unsorted(keyframes, value_key, fallback) ==
    IF Len(keyframes) < 2 THEN fallback
    ELSE PiecewiseFrom(keyframes, 1, value_key, fallback, "t")

build_piecewise_expr(keyframes, value_key, fallback) ==
    LET ordered == _sorted_keyframes(keyframes)
    IN  IF Len(ordered) < 2 THEN fallback
        ELSE PiecewiseFrom(ordered, 1, value_key, fallback, "t")

-----------------------------------------------------------------------------
(* renderer_v2.py: one image layer *)

ZOOM_START_PCT == 100

ZOOM_END_PCT == 106

SLIDE_DURATION_UNITS == (8 * UNITS) \div 10

DISABLE_ZOOM_ON_GIFS == TRUE

DotGif == <<".","g","i","f">>

_is_gif(path) == EndsWith(StrLower(path), DotGif)

\* int(math.ceil(a / b)) for a >= 0, b > 0
CeilDiv(a, b) == (a + b - 1) \div b

\* slide_direction: None and "" are both ""
ImageLayer(path, zoom_enabled, slide_direction, blur_entry, keyframes) ==
    [path |-> path, zoom_enabled |-> zoom_enabled, slide_direction |-> slide_direction,
     blur_entry |-> blur_entry, keyframes |-> keyframes]

\* blur_entry is <<>> for None, else <<BlurEntrySpec>>; duration is <<>> for None
BlurEntrySpec(enabled, duration, method) ==
    [enabled |-> enabled, duration |-> duration, method |-> method]

InputLabel(i) == ToString(i) \o ":v"

\* the zoompan factor: ZOOM_START+(ZOOM_END-ZOOM_START)*on/zoom_den
ZoomExpr(zoom_den) ==
    Add(Rat(ZOOM_START_PCT, 100),
        Div(Mul(Sub(Rat(ZOOM_END_PCT, 100), Rat(ZOOM_START_PCT, 100)), V("on")),
            Num(zoom_den)))

\* lines 78-112; returns the filters and the output label
_build_entry_blur(blur, input_label, duration, fps) ==
    LET blur_duration == IF blur.duration # <<>> THEN blur.duration[1]
                         ELSE SLIDE_DURATION_UNITS
        method == IF blur.method \in {"boxblur", "tmix"} THEN blur.method ELSE "tblend"
    IN  IF blur_duration <= 0
        THEN [filters |-> <<>>, label |-> input_label]
        ELSE [filters |-> <<[kind |-> "blur", method |-> method,
                             ins |-> <<input_label>>, out |-> "img_blur",
                             until |-> Min2(blur_duration, duration)]>>,
              label |-> "img_blur"]

AllowZoomIgnoringGif(image) == image.zoom_enabled

\* line 125: image.zoom_enabled and not (isgif and DISABLE_ZOOM_ON_GIFS)
AllowZoom(image) ==
    image.zoom_enabled /\ ~(_is_gif(image.path) /\ DISABLE_ZOOM_ON_GIFS)

ZoomDenNoGuard(total_frames) == total_frames

\* line 131: zoom_den = max(1, total_frames - 1)
ZoomDen(total_frames) == Max2(1, total_frames - 1)

_build_image_filter(image, input_label, duration, total_frames, target_w, target_h, fps) ==
    LET canvas_w == CeilDiv(target_w * ZOOM_END_PCT, 100)
        canvas_h == CeilDiv(target_h * ZOOM_END_PCT, 100)
        zoom_den == ZoomDen(total_frames)
        scaled   ==
            IF AllowZoom(image)
            THEN <<[kind |-> "scale", ins |-> <<input_label>>, out |-> "img0",
                    w |-> canvas_w, h |-> canvas_h, fps |-> <<>>],
                   [kind |-> "canvas", ins |-> <<>>, out |-> "can",
                    w |-> canvas_w, h |-> canvas_h, fps |-> fps, d |-> duration],
                   [kind |-> "canvas_overlay", ins |-> <<"can", "img0">>, out |-> "pre",
                    x |-> CenterX, y |-> CenterY],
                   [kind |-> "zoompan", ins |-> <<"pre">>, out |-> "img",
                    z |-> ZoomExpr(zoom_den), d |-> total_frames,
                    w |-> target_w, h |-> target_h, fps |-> fps]>>
            ELSE <<[kind |-> "scale", ins |-> <<input_label>>, out |-> "img",
                    w |-> target_w, h |-> target_h, fps |-> <<fps>>]>>
    IN  IF /\ image.slide_direction # ""
           /\ image.blur_entry # <<>>
           /\ image.blur_entry[1].enabled
        THEN LET b == _build_entry_blur(image.blur_entry[1], "img", duration, fps)
             IN  [filters |-> scaled \o b.filters, label |-> b.label]
        ELSE [filters |-> scaled, label |-> "img"]

\* line 165: sf = max(1, int(SLIDE_DURATION * fps))
SlideFrames(fps) == Max2(1, (SLIDE_DURATION_UNITS * fps) \div UNITS)

\* W-(W-(final))*n/sf
SlideFromFar(final, extent, sf) ==
    Sub(V(extent), Div(Mul(Sub(V(extent), final), V("n")), Num(sf)))

SlideFromNearInFrame(final, size, sf) == Div(Mul(final, V("n")), Num(sf))

\* -w+(final+w)*n/sf
SlideFromNear(final, size, sf) ==
    Add(Neg(V(size)), Div(Mul(Add(final, V(size)), V("n")), Num(sf)))

SlideIf(from, final, sf) == IfE(Lt(V("n"), Num(sf)), from, final)

_apply_slide(final_x, final_y, slide_direction, fps) ==
    LET sf == SlideFrames(fps)
    IN  CASE slide_direction = "left" ->
                <<SlideIf(SlideFromFar(final_x, "W", sf), final_x, sf), final_y>>
          [] slide_direction = "right" ->
                <<SlideIf(SlideFromNear(final_x, "w", sf), final_x, sf), final_y>>
          [] slide_direction = "up" ->
                <<final_x, SlideIf(SlideFromFar(final_y, "H", sf), final_y, sf)>>
          [] slide_direction = "down" ->
                <<final_x, SlideIf(SlideFromNear(final_y, "h", sf), final_y, sf)>>
          [] OTHER -> <<final_x, final_y>>

_apply_slide_text(final_x, final_y, slide_direction, fps) ==
    LET sf == SlideFrames(fps)
    IN  CASE slide_direction = "left" ->
                <<SlideIf(SlideFromFar(final_x, "W", sf), final_x, sf), final_y>>
          [] slide_direction = "right" ->
                <<SlideIf(SlideFromNear(final_x, "text_w", sf), final_x, sf), final_y>>
          [] slide_direction = "up" ->
                <<final_x, SlideIf(SlideFromFar(final_y, "H", sf), final_y, sf)>>
          [] slide_direction = "down" ->
                <<final_x, SlideIf(SlideFromNear(final_y, "text_h", sf), final_y, sf)>>
          [] OTHER -> <<final_x, final_y>>

\* render_clip lines 269-277: the overlay position of one image
ImagePosition(image, slot, fps) ==
    IF image.keyframes # <<>>
    THEN <<build_piecewise_expr(image.keyframes, "x", slot.x_expr),
           build_piecewise_expr(image.keyframes, "y", slot.y_expr)>>
    ELSE IF image.slide_direction # ""
    THEN _apply_slide(slot.x_expr, slot.y_expr, image.slide_direction, fps)
    ELSE <<slot.x_expr, slot.y_expr>>

\* line 205: max(1, int(math.ceil(duration * fps)))
TotalFrames(duration, fps) == Max2(1, CeilDiv(duration * fps, UNITS))

-----------------------------------------------------------------------------
(* Inputs for one image layer *)

P_png == <<"a",".","p","n","g">>

P_gif == <<"b",".","g","i","f">>

P_GIF == <<"c",".","G","I","F">>

P_Gif == <<"d",".","G","i","f">>

\* "gif" and "e.gif.png" do not end in .gif
P_nodot == <<"g","i","f">>

P_gif_png == <<"e",".","g","i","f",".","p","n","g">>

Paths == {P_png, P_gif, P_GIF, P_Gif, P_nodot, P_gif_png}

SlideDirections == {"", "left", "right", "up", "down", "diagonal"}

BlurEntries ==
    {<<>>, <<BlurEntrySpec(FALSE, <<>>, "tblend")>>,
     <<BlurEntrySpec(TRUE, <<>>, "tblend")>>,
     <<BlurEntrySpec(TRUE, <<0>>, "boxblur")>>}

KF_xy ==
    <<KeyframeSpec(0, [key \in {"x", "y"} |-> 0], "linear"),
      KeyframeSpec(UNITS, [key \in {"x", "y"} |-> 100], "ease_in")>>

\* out of order, and the y value missing on one side
KF_x_unsorted ==
    <<KeyframeSpec(UNITS, [key \in {"x"} |-> 50], "bounce"),
      KeyframeSpec(0, [key \in {"x", "y"} |-> 10], "ease_in_out")>>

KF_single == <<KeyframeSpec(0, [key \in {"x", "y"} |-> 5], "linear")>>

KeyframeSeqs == {<<>>, KF_xy, KF_x_unsorted, KF_single}

ImageLayers ==
    {ImageLayer(p, z, sd, b, kf) :
        p \in Paths, z \in BOOLEAN, sd \in SlideDirections,
        b \in BlurEntries, kf \in KeyframeSeqs}

\* <<duration in units, fps>>: 0.04 s, 2.0 s, 1.01 s
Timings == {<<UNITS \div 25, 25>>, <<2 * UNITS, 25>>, <<(101 * UNITS) \div 100, 30>>}

ImageCalls == [image : ImageLayers, timing : Timings]

ImgInit ==
    /\ \E a \in ImageCalls : img = [pc |-> "call", args |-> <<a>>, ret |-> <<>>]
    /\ lay = LayIdle
    /\ clip = ClipIdle
    /\ ease = EaseIdle
    /\ call = CallIdle

\* one iteration of render_clip's image loop for the single slot of the
\* default layout: the transform chain and the overlay position
BuildImage ==
    /\ img.pc = "call"
    /\ LET a    == img.args[1]
           slot == _legacy_single(FALSE, S_left).image_slots[1]
           tf   == TotalFrames(a.timing[1], a.timing[2])
           bf   == _build_image_filter(a.image, InputLabel(0), a.timing[1], tf,
                                       slot.target_w, slot.target_h, a.timing[2])
           pos  == ImagePosition(a.image, slot, a.timing[2])
       IN  img' = [img EXCEPT !.pc = "ret",
                              !.ret = <<[filters |-> bf.filters, label |-> bf.label,
                                         x |-> pos[1], y |-> pos[2],
                                         total_frames |-> tf, slot |-> slot]>>]
    /\ UNCHANGED <<lay, clip, ease, call>>

ImgNext == BuildImage

SpecImage == ImgInit /\ [][ImgNext]_vars

ImgArgs == img.args[1]

ImgRet == img.ret[1]

ImgReturned == img.pc = "ret"

HasKind(filters, kind) == \E i \in 1..Len(filters) : filters[i].kind = kind

\* the slide entrance transform on either axis
IsSlideExpr(e) == e.k = "if" /\ e.c = Lt(V("n"), Num(SlideFrames(ImgArgs.timing[2])))

\* C7 as stated: an image layer with a non-empty keyframe sequence gets
\* neither the zoom transform nor the slide transform, whatever its
\* zoom-enabled flag and slide direction; its position is the compiled
\* keyframe expression (or the static placement as fallback).
C7_KeyframesOverrideZoomAndSlide ==
    (ImgReturned /\ ImgArgs.image.keyframes # <<>>) =>
        /\ ~HasKind(ImgRet.filters, "zoompan")
        /\ ~IsSlideExpr(ImgRet.x) /\ ~IsSlideExpr(ImgRet.y)
        /\ ImgRet.x = build_piecewise_expr(ImgArgs.image.keyframes, "x",
                                           ImgRet.slot.x_expr)
        /\ ImgRet.y = build_piecewise_expr(ImgArgs.image.keyframes, "y",
                                           ImgRet.slot.y_expr)

\* C8: a source whose path ends in .gif (any letter case) never gets the zoom
\* transform; every other source gets it exactly when zoom is requested.
C8_NoZoomOnGif ==
    ImgReturned =>
        IF \E g \in {P_gif, P_GIF, P_Gif} : ImgArgs.image.path = g
        THEN ~HasKind(ImgRet.filters, "zoompan")
        ELSE HasKind(ImgRet.filters, "zoompan") <=> ImgArgs.image.zoom_enabled

C8_Witness ==
    /\ ImgReturned
    /\ ImgArgs.image.path = P_GIF
    /\ ImgArgs.image.zoom_enabled
    /\ ~HasKind(ImgRet.filters, "zoompan")
    /\ HasKind(ImgRet.filters, "scale")

-----------------------------------------------------------------------------
(* stickman_animations.py *)

A_walk_to_final == <<"w","a","l","k","_","t","o","_","f","i","n","a","l">>

A_pop_to_final == <<"p","o","p","_","t","o","_","f","i","n","a","l">>

A_slide_to_final == <<"s","l","i","d","e","_","t","o","_","f","i","n","a","l">>

\* direction is <<>> for None
StickmanAnim(name, direction) == [name |-> name, direction |-> direction]

FractionFramesNoGuard(total_frames, tenths) == (total_frames * tenths) \div 10

\* max(1, int(total_frames * tenths/10))
FractionFrames(total_frames, tenths) == Max2(1, (total_frames * tenths) \div 10)

RampIfFromRest(start, final, frames) ==
    IfE(Lt(V("n"), Num(frames)),
        Add(final, Div(Mul(Sub(start, final), V("n")), Num(frames))),
        start)

\* if(lt(n,frames),(start)+((final)-(start))*n/frames,(final))
RampIf(start, final, frames) ==
    IfE(Lt(V("n"), Num(frames)),
        Add(start, Div(Mul(Sub(final, start), V("n")), Num(frames))),
        final)

\* anim is <<>> for None; returns <<x_expr, y_expr, scale_expr>>
build_stickman_animation(anim, total_frames_in, final_x, final_y) ==
    IF anim = <<>> THEN <<final_x, final_y, Num(1)>>
    ELSE
    LET name         == StrLower(StrStrip(anim[1].name))
        total_frames == Max2(1, total_frames_in)
    IN  IF name = A_walk_to_final THEN
            LET walk_frames == FractionFrames(total_frames, 6)
                start_x     == Sub(final_x, Num(200))
            IN  <<RampIf(start_x, final_x, walk_frames),
                  IfE(Lt(V("n"), Num(walk_frames)),
                      Add(final_y,
                          Mul(Num(6),
                              SinE(Div(Mul(Mul(Num(2), V("PI")), V("n")), Num(10))))),
                      final_y),
                  Num(1)>>
        ELSE IF name = A_pop_to_final THEN
            LET pop_frames == FractionFrames(total_frames, 3)
            IN  <<final_x, final_y,
                  IfE(Lt(V("n"), Num(pop_frames)),
                      Add(Rat(7, 10), Div(Mul(Rat(3, 10), V("n")), Num(pop_frames))),
                      Num(1))>>
        ELSE IF name = A_slide_to_final THEN
            LET direction    == StrLower(StrStrip(OrDefault(anim[1].direction, S_left)))
                slide_frames == FractionFrames(total_frames, 4)
                start_x      == IF direction = S_right
                                THEN Add(V("W"), Num(STICKMAN_SIZE))
                                ELSE Neg(Num(STICKMAN_SIZE))
            IN  <<RampIf(start_x, final_x, slide_frames), final_y, Num(1)>>
        ELSE <<final_x, final_y, Num(1)>>

-----------------------------------------------------------------------------
(* renderer_v2.py: render_clip *)

TEXT_IMAGE_MARGIN == 16

STICKMAN_TEXT_MARGIN == 7

A_top == <<"t","o","p">>

A_bottom == <<"b","o","t","t","o","m">>

\* text: None and "" are both ""; text_margin, text_anchor_slot and stickman
\* are <<>> for None
ClipSpec(duration, fps, layout, side, images, stickman, text, anchor, margin, slot) ==
    [duration |-> duration, fps |-> fps, width |-> OUT_W, height |-> OUT_H,
     layout |-> layout, stickman_position |-> side,
     images |-> images, stickman |-> stickman, text |-> text,
     text_anchor |-> anchor, text_margin |-> margin,
     text_anchor_slot |-> slot]

StickmanLayer(path, speech, anim) == [path |-> path, speech |-> speech, anim |-> anim]

\* line 206: (spec.text_anchor or "").strip().lower()
TextAnchor(spec) == StrLower(StrStrip(spec.text_anchor))

\* line 207
TextAnchorSlot(spec) ==
    IF spec.text_anchor_slot # <<>> THEN spec.text_anchor_slot[1] ELSE 0

\* lines 208-214
TextMargin(spec) ==
    IF spec.text_margin = <<>> THEN TEXT_IMAGE_MARGIN ELSE spec.text_margin[1]

\* re.sub(r"\bw\b", width), re.sub(r"\bh\b", height) on a slot placement
RECURSIVE _replace_expr_vars(_, _, _)
_replace_expr_vars(e, width, height) ==
    CASE e.k = "var" -> IF e.name = "w" THEN Num(width)
                        ELSE IF e.name = "h" THEN Num(height)
                        ELSE e
      [] e.k = "num" -> e
      [] e.k = "neg" -> Neg(_replace_expr_vars(e.a, width, height))
      [] OTHER -> Bin(e.k, _replace_expr_vars(e.a, width, height),
                      _replace_expr_vars(e.b, width, height))

\* the probe's answer: exit status and the fields of its output split at "x";
\* a field is <<n>> when it parses as an integer and <<>> otherwise
ProbeResult(returncode, parts) == [returncode |-> returncode, parts |-> parts]

ScaledSizeFromProbeOrNothing(result, target_w, target_h) ==
    IF result.returncode # 0 THEN <<0, 0>>
    ELSE IF Len(result.parts) # 2 THEN <<0, 0>>
    ELSE IF result.parts[1] = <<>> \/ result.parts[2] = <<>>
         THEN <<0, 0>>
    ELSE <<result.parts[1][1], result.parts[2][1]>>

\* lines 67-75 of _scaled_image_size, after subprocess.run has returned
ScaledSizeFromProbe(result, target_w, target_h) ==
    IF result.returncode # 0 THEN <<target_w, target_h>>
    ELSE IF Len(result.parts) # 2 THEN <<target_w, target_h>>
    ELSE IF result.parts[1] = <<>> \/ result.parts[2] = <<>>
         THEN <<target_w, target_h>>
    ELSE <<result.parts[1][1], result.parts[2][1]>>

WExtraImage(layout, image) ==
    [kind |-> "extra_image", layout |-> layout.name, path |-> image.path]

\* lines 226-239: one input per image, the background colour source, the stickman
Inputs(spec) ==
    [i \in 1..Len(spec.images) |->
        [kind |-> IF _is_gif(spec.images[i].path) THEN "gif_loop" ELSE "still",
         path |-> spec.images[i].path]]
    \o <<[kind |-> "color", path |-> <<>>]>>
    \o (IF spec.stickman # <<>>
        THEN <<[kind |-> "still", path |-> spec.stickman[1].path]>>
        ELSE <<>>)

\* lines 204-248: the state of render_clip on entering the image loop
Prologue(spec) ==
    LET r    == resolve_layout(spec.layout, spec.stickman # <<>>, Len(spec.images),
                               spec.stickman_position)
        bg_i == Len(spec.images)
    IN  [pc |-> "loop", spec |-> <<spec>>,
         total_frames |-> TotalFrames(spec.duration, spec.fps),
         layout |-> <<r.layout>>, warnings |-> r.warnings,
         inputs |-> Inputs(spec), bg_i |-> bg_i,
         stick_i |-> IF spec.stickman # <<>> THEN <<bg_i + 1>> ELSE <<>>,
         filters |-> <<[kind |-> "background", ins |-> <<InputLabel(bg_i)>>,
                        out |-> "bg"]>>,
         cur |-> "bg", idx |-> 0, anchored_text_exprs |-> <<>>,
         text_applied_to_anchor |-> FALSE, probes |-> 0, probe |-> <<>>,
         map |-> "", returncode |-> <<>>, result |-> <<>>, error |-> <<>>]

AnchorsTextAtAnySlot(spec, idx) ==
    /\ spec.text # ""
    /\ TextAnchor(spec) \in {A_top, A_bottom}

\* line 279
AnchorsText(spec, idx) ==
    /\ spec.text # ""
    /\ idx = TextAnchorSlot(spec)
    /\ TextAnchor(spec) \in {A_top, A_bottom}

\* lines 257-267: the transform chain of image idx is appended
IterFilters(st) ==
    LET spec  == st.spec[1]
        image == spec.images[st.idx + 1]
        slot  == st.layout[1].image_slots[st.idx + 1]
        bf    == _build_image_filter(image, InputLabel(st.idx), spec.duration,
                                     st.total_frames, slot.target_w, slot.target_h,
                                     spec.fps)
    IN  [st EXCEPT !.filters = @ \o bf.filters]

ImageLabelUnblurred(st) == "img"

\* the output label of the chain IterFilters appended
ImageLabel(st) ==
    LET spec  == st.spec[1]
        image == spec.images[st.idx + 1]
        slot  == st.layout[1].image_slots[st.idx + 1]
    IN  _build_image_filter(image, InputLabel(st.idx), spec.duration,
                            st.total_frames, slot.target_w, slot.target_h,
                            spec.fps).label

\* lines 283-293: the caption position beside the anchor image
AnchoredTextExprs(spec, image, slot, scaled) ==
    LET scaled_w == scaled[1]
        scaled_h == scaled[2]
        bx       == _replace_expr_vars(slot.x_expr, scaled_w, scaled_h)
        by       == _replace_expr_vars(slot.y_expr, scaled_w, scaled_h)
        margin   == TextMargin(spec)
        text_x   == Add(bx, Div(Sub(Num(scaled_w), V("text_w")), Num(2)))
        text_y   == IF TextAnchor(spec) = A_top
                    THEN Sub(Sub(by, V("text_h")), Num(margin))
                    ELSE MinE(Add(Add(by, Num(scaled_h)), Num(margin)),
                              Sub(Sub(V("H"), V("text_h")), Num(TEXT_IMAGE_MARGIN)))
    IN  IF image.slide_direction # ""
        THEN _apply_slide_text(text_x, text_y, image.slide_direction, spec.fps)
        ELSE <<text_x, text_y>>

\* lines 269-298: the rest of the iteration for image idx; scaled is what
\* _scaled_image_size returned (read only when the caption is anchored here)
IterOverlay(st, scaled) ==
    LET spec  == st.spec[1]
        image == spec.images[st.idx + 1]
        slot  == st.layout[1].image_slots[st.idx + 1]
        pos   == ImagePosition(image, slot, spec.fps)
        out   == "v" \o ToString(st.idx)
    IN  [st EXCEPT
           !.anchored_text_exprs =
               IF AnchorsText(spec, st.idx)
               THEN AnchoredTextExprs(spec, image, slot, scaled)
               ELSE @,
           !.filters = Append(@, [kind |-> "overlay", ins |-> <<st.cur, ImageLabel(st)>>,
                                  out |-> out, x |-> pos[1], y |-> pos[2],
                                  idx |-> st.idx]),
           !.cur = out,
           !.idx = @ + 1]

SkipExtraImageAndStop(st) ==
    [st EXCEPT
       !.warnings = Append(@, WExtraImage(st.layout[1], st.spec[1].images[st.idx + 1])),
       !.idx = Len(st.spec[1].images)]

\* lines 251-255: an image beyond the slots is warned about and skipped
SkipExtraImage(st) ==
    [st EXCEPT
       !.warnings = Append(@, WExtraImage(st.layout[1], st.spec[1].images[st.idx + 1])),
       !.idx = @ + 1]

\* lines 250-298: the image loop, up to its end or to the probe of the
\* caption's anchor image (pc = "probe")
RECURSIVE ImageLoop(_)
ImageLoop(st) ==
    LET spec   == st.spec[1]
        layout == st.layout[1]
    IN  IF st.idx >= Len(spec.images) THEN st
        ELSE IF st.idx >= Len(layout.image_slots)
        THEN ImageLoop(SkipExtraImage(st))
        ELSE IF AnchorsText(spec, st.idx) /\ ~spec.images[st.idx + 1].zoom_enabled
        THEN [IterFilters(st) EXCEPT !.pc = "probe"]
        ELSE LET slot == layout.image_slots[st.idx + 1]
             IN  ImageLoop(IterOverlay(IterFilters(st),
                                       <<slot.target_w, slot.target_h>>))

Drawtext(role, cur, out, x, y) ==
    [kind |-> "drawtext", role |-> role, ins |-> <<cur>>, out |-> out, x |-> x, y |-> y]

\* lines 300-309
AnchoredCaptionStep(st) ==
    IF st.spec[1].text # "" /\ st.anchored_text_exprs # <<>>
    THEN [st EXCEPT
            !.filters = Append(@, Drawtext("caption_anchored", st.cur, "vtext",
                                           st.anchored_text_exprs[1],
                                           st.anchored_text_exprs[2])),
            !.cur = "vtext",
            !.text_applied_to_anchor = TRUE]
    ELSE st

\* lines 311-325
StickmanStep(st) ==
    LET spec   == st.spec[1]
        layout == st.layout[1]
    IN  IF spec.stickman # <<>> /\ layout.stickman_pos # <<>> /\ st.stick_i # <<>>
        THEN LET anim == build_stickman_animation(spec.stickman[1].anim,
                             st.total_frames, layout.stickman_pos[1],
                             layout.stickman_pos[2])
             IN  [st EXCEPT
                    !.filters = @ \o
                        <<[kind |-> "stickman_scale",
                           ins |-> <<InputLabel(st.stick_i[1])>>, out |-> "stick",
                           scale |-> Mul(Num(STICKMAN_SIZE), anim[3])],
                          [kind |-> "stickman_overlay", ins |-> <<st.cur, "stick">>,
                           out |-> "vstick", x |-> anim[1], y |-> anim[2]]>>,
                    !.cur = "vstick"]
        ELSE st

\* lines 327-334
CenteredCaptionStep(st) ==
    IF st.spec[1].text # "" /\ ~st.text_applied_to_anchor
    THEN [st EXCEPT
            !.filters = Append(@, Drawtext("caption_centered", st.cur, "vtext",
                                  Div(Sub(V("w"), V("text_w")), Num(2)),
                                  Div(Sub(V("h"), V("text_h")), Num(2)))),
            !.cur = "vtext"]
    ELSE st

\* lines 336-345
SpeechStep(st) ==
    LET spec   == st.spec[1]
        layout == st.layout[1]
    IN  IF spec.stickman # <<>> /\ spec.stickman[1].speech # "" /\ layout.stickman_pos # <<>>
        THEN [st EXCEPT
                !.filters = Append(@, Drawtext("speech", st.cur, "vspeech",
                    Sub(Add(layout.stickman_pos[1], Div(Num(STICKMAN_SIZE), Num(2))),
                        Div(V("text_w"), Num(2))),
                    Sub(Sub(Div(Sub(V("H"), Num(STICKMAN_SIZE)), Num(2)), V("text_h")),
                        Num(STICKMAN_TEXT_MARGIN)))),
                !.cur = "vspeech"]
        ELSE st

CharacterFirstTail(st) ==
    SpeechStep(CenteredCaptionStep(AnchoredCaptionStep(StickmanStep(st))))

\* lines 300-345 in the code's order
PlanTail(st) ==
    SpeechStep(CenteredCaptionStep(StickmanStep(AnchoredCaptionStep(st))))

\* lines 300-368: the nodes after the image loop and the command: the plan is
\* complete and the compositor is invoked
Finish(st) == [PlanTail(st) EXCEPT !.pc = "ffmpeg", !.map = PlanTail(st).cur]

-----------------------------------------------------------------------------
(* Inputs of render_clip *)

\* a still placed statically, a zoomed still sliding in with entry blur, and an
\* animated image with zoom requested, a slide direction and keyframes
ClipImages ==
    {ImageLayer(P_png, FALSE, "", <<>>, <<>>),
     ImageLayer(P_png, TRUE, "left", <<BlurEntrySpec(TRUE, <<>>, "tblend")>>, <<>>),
     ImageLayer(P_GIF, TRUE, "right", <<>>, KF_xy)}

RECURSIVE SeqsUpTo(_, _)
SeqsUpTo(S, n) ==
    IF n = 0 THEN {<<>>}
    ELSE LET shorter == SeqsUpTo(S, n - 1)
         IN  shorter \cup {Append(q, x) : q \in shorter, x \in S}

P_stick == <<"n",".","p","n","g">>

A_Pop_sp == <<" ","P","o","p","_","t","o","_","f","i","n","a","l">>

ClipStickmen ==
    {<<>>,
     <<StickmanLayer(P_stick, "", <<>>)>>,
     <<StickmanLayer(P_stick, "hi", <<StickmanAnim(A_Pop_sp, <<>>)>>)>>}

A_Top_sp == <<" ","T","o","p">>

\* <<text, text_anchor, text_margin, text_anchor_slot>>
ClipCaptions ==
    {<<"", <<>>, <<>>, <<>>>>,
     <<"hello", <<>>, <<>>, <<>>>>,
     <<"hello", A_Top_sp, <<>>, <<>>>>,
     <<"hello", A_bottom, <<8>>, <<1>>>>}

ClipLayouts == KnownLayouts \cup {L_grid}

ClipSides == {S_left, S_right}

\* <<duration in units, fps>>: 0.04 s and 2.0 s at 25 frames per second,
\* 1.01 s at 30
ClipTimings == {<<UNITS \div 25, FPS>>, <<2 * UNITS, FPS>>, <<(101 * UNITS) \div 100, 30>>}

\* the 2.0 s timing with every image list; the other timings with at most
\* one image (the frame count matters to the zoom of a single image only)
MainTiming == <<2 * UNITS, FPS>>

ClipSpecsOf(timings, imageLists) ==
    {ClipSpec(t[1], t[2], l, sd, im, sm, c[1], c[2], c[3], c[4]) :
        t \in timings, l \in ClipLayouts, sd \in ClipSides,
        im \in imageLists, sm \in ClipStickmen, c \in ClipCaptions}

\* every list of fewer than MaxImages images, and the lists of MaxImages
\* images whose last one is the plain still
ClipImageLists ==
    LET shorter == SeqsUpTo(ClipImages, MaxImages - 1)
    IN  shorter \cup {Append(q, ImageLayer(P_png, FALSE, "", <<>>, <<>>)) :
                         q \in {r \in shorter : Len(r) = MaxImages - 1}}

ClipSpecs ==
    ClipSpecsOf({MainTiming}, ClipImageLists)
        \cup ClipSpecsOf(ClipTimings \ {MainTiming}, SeqsUpTo(ClipImages, 1))

ProbeResults ==
    {ProbeResult(1, <<>>),
     ProbeResult(0, <<<<>>>>),
     ProbeResult(0, <<<<800>>, <<>>>>),
     ProbeResult(0, <<<<800>>, <<600>>>>)}

Init ==
    /\ \E spec \in ClipSpecs :
          clip = [Prologue(spec) EXCEPT !.pc = "ready", !.total_frames = 0,
                                        !.layout = <<>>, !.warnings = <<>>,
                                        !.inputs = <<>>, !.filters = <<>>,
                                        !.cur = "", !.stick_i = <<>>, !.bg_i = 0]
    /\ lay = LayIdle
    /\ img = ImgIdle
    /\ ease = EaseIdle
    /\ call = CallIdle

\* render_clip from its call up to the first external process it waits for:
\* the probe of the caption's anchor image, or the compositor
RenderStart ==
    /\ clip.pc = "ready"
    /\ LET st == ImageLoop(Prologue(clip.spec[1]))
       IN  clip' = IF st.pc = "probe" THEN st ELSE Finish(st)
    /\ UNCHANGED <<lay, img, ease, call>>

\* subprocess.run of ffprobe returns; render_clip goes on to the compositor
ProbeReturn ==
    /\ clip.pc = "probe"
    /\ \E r \in ProbeResults :
          LET slot == clip.layout[1].image_slots[clip.idx + 1]
              size == ScaledSizeFromProbe(r, slot.target_w, slot.target_h)
              st   == IterOverlay([clip EXCEPT !.pc = "loop", !.probes = @ + 1,
                                               !.probe = <<r>>], size)
          IN  clip' = Finish(ImageLoop(st))
    /\ UNCHANGED <<lay, img, ease, call>>

\* the arguments one input contributes to the command: lines 230-242
InputArgs(input, spec) ==
    CASE input.kind = "gif_loop" ->
            <<"-stream_loop", "-1", "-ignore_loop", "0", "-i", input.path>>
      [] input.kind = "still" ->
            <<"-loop", "1", "-framerate", spec.fps, "-i", input.path>>
      [] input.kind = "color" ->
            <<"-f", "lavfi", "-i",
              [width |-> spec.width, height |-> spec.height, rate |-> spec.fps,
               duration |-> spec.duration]>>

RECURSIVE AllInputArgs(_, _, _)
AllInputArgs(inputs, i, spec) ==
    IF i > Len(inputs) THEN <<>>
    ELSE InputArgs(inputs[i], spec) \o AllInputArgs(inputs, i + 1, spec)

\* lines 347-368
Command(st, out) ==
    <<"ffmpeg", "-y">> \o AllInputArgs(st.inputs, 1, st.spec[1])
    \o <<"-filter_complex", st.filters, "-map", st.map,
         "-frames:v", st.total_frames, "-t", st.spec[1].duration,
         "-c:v", "libx264", "-preset", "fast", "-crf", "23",
         "-pix_fmt", "yuv420p", out>>

\* cmd[:20]
CommandSummary(cmd) == SubSeq(cmd, 1, Min2(20, Len(cmd)))

\* the out argument of render_clip
OutFile == "clip_000.mp4"

CompletedProcess(returncode, stderr) == [returncode |-> returncode, stderr |-> stderr]

\* a clean exit, an exit 0 that wrote to the error stream, and a failure
CompositorResults ==
    {CompletedProcess(0, ""), CompletedProcess(0, "deprecated"),
     CompletedProcess(1, "boom")}

CompositorFailedOrStderr(r) == r.returncode # 0 \/ r.stderr # ""

\* line 371
CompositorFailed(r) == r.returncode # 0

\* subprocess.run of ffmpeg returns: lines 370-379
CompositorReturn ==
    /\ clip.pc = "ffmpeg"
    /\ \E r \in CompositorResults :
          clip' = IF CompositorFailed(r)
                  THEN [clip EXCEPT !.pc = "failed", !.returncode = <<r.returncode>>,
                           !.error = <<[kind    |-> "RuntimeError",
                                        out     |-> OutFile,
                                        command |-> CommandSummary(Command(clip, OutFile)),
                                        stderr  |-> r.stderr]>>]
                  ELSE [clip EXCEPT !.pc = "done", !.returncode = <<r.returncode>>,
                                    !.result = <<clip.warnings>>]
    /\ UNCHANGED <<lay, img, ease, call>>

Next == RenderStart \/ ProbeReturn \/ CompositorReturn

Spec == Init /\ [][Next]_vars

-----------------------------------------------------------------------------
(* Evaluation of engine expressions over the rationals <<n, d>>, d > 0 *)

Abs(n) == IF n < 0 THEN -n ELSE n

RECURSIVE Gcd(_, _)
Gcd(a, b) == IF b = 0 THEN a ELSE Gcd(b, a % b)

\* n/d in lowest terms, d > 0
Q(n, d) ==
    LET g == Gcd(Abs(n), Abs(d))
    IN  IF d > 0 THEN <<n \div g, d \div g>> ELSE <<(-n) \div g, (-d) \div g>>

QAdd(p, q) == Q(p[1] * q[2] + q[1] * p[2], p[2] * q[2])

QSub(p, q) == Q(p[1] * q[2] - q[1] * p[2], p[2] * q[2])

QMul(p, q) == Q(p[1] * q[1], p[2] * q[2])

\* q # 0
QDiv(p, q) == Q(p[1] * q[2], p[2] * q[1])

QLt(p, q) == p[1] * q[2] < q[1] * p[2]

QLe(p, q) == p[1] * q[2] <= q[1] * p[2]

QEq(p, q) == p[1] * q[2] = q[1] * p[2]

QBool(b) == IF b THEN <<1, 1>> ELSE <<0, 1>>

\* env maps variable names to rationals
RECURSIVE EvalExpr(_, _)
EvalExpr(e, env) ==
    CASE e.k = "num" -> Q(e.n, e.d)
      [] e.k = "var" -> env[e.name]
      [] e.k = "neg" -> QSub(<<0, 1>>, EvalExpr(e.a, env))
      [] e.k = "add" -> QAdd(EvalExpr(e.a, env), EvalExpr(e.b, env))
      [] e.k = "sub" -> QSub(EvalExpr(e.a, env), EvalExpr(e.b, env))
      [] e.k = "mul" -> QMul(EvalExpr(e.a, env), EvalExpr(e.b, env))
      [] e.k = "div" -> QDiv(EvalExpr(e.a, env), EvalExpr(e.b, env))
      [] e.k = "lt"  -> QBool(QLt(EvalExpr(e.a, env), EvalExpr(e.b, env)))
      [] e.k = "min" -> LET x == EvalExpr(e.a, env)
                            y == EvalExpr(e.b, env)
                        IN  IF QLe(x, y) THEN x ELSE y
      [] e.k = "max" -> LET x == EvalExpr(e.a, env)
                            y == EvalExpr(e.b, env)
                        IN  IF QLe(y, x) THEN x ELSE y
      [] e.k = "between" ->
            LET x == EvalExpr(e.x, env)
            IN  QBool(QLe(EvalExpr(e.lo, env), x) /\ QLe(x, EvalExpr(e.hi, env)))
      [] e.k = "if" -> IF EvalExpr(e.c, env)[1] # 0
                       THEN EvalExpr(e.a, env)
                       ELSE EvalExpr(e.b, env)

-----------------------------------------------------------------------------
(* Properties of render_clip *)

Spec1 == clip.spec[1]

\* the plan is complete: the compositor has been invoked
Planned == clip.pc \in {"ffmpeg", "done", "failed"}

Nodes == clip.filters

NodesOfKind(kind) == {i \in 1..Len(Nodes) : Nodes[i].kind = kind}

CaptionNodes(role) ==
    {i \in 1..Len(Nodes) : Nodes[i].kind = "drawtext" /\ Nodes[i].role = role}

EmptyClip ==
    /\ Spec1.images = <<>>
    /\ Spec1.text = ""
    /\ Spec1.stickman = <<>>

OnlyBackground ==
    /\ Len(Nodes) = 1
    /\ Nodes[1].kind = "background"

\* C1 as stated: a clip without images, caption and character gets a plan of
\* the background node alone and an empty warnings list.
C1_AsStated ==
    (clip.pc = "done" /\ EmptyClip) =>
        /\ OnlyBackground
        /\ clip.result[1] = <<>>

\* C1 amended: such a clip gets a plan of the background node alone, and the
\* warnings returned are never empty: they are the layout resolver's warnings
\* for image count 0, ending in an insufficient-images warning or, for the two
\* layouts that need a character, the no-character fallback warning, preceded
\* by the unknown-layout warning when the layout name is unknown.
C1_EmptyClipPlan ==
    (clip.pc = "done" /\ EmptyClip) =>
        LET w == clip.result[1]
        IN  /\ OnlyBackground
            /\ Len(w) \in {1, 2}
            /\ w[Len(w)].kind \in {"insufficient_images", "no_stickman_fallback"}
            /\ Len(w) = 2 => w[1].kind = "unknown_layout"
            /\ Len(w) = 2 <=> NormalizeLayoutName(Spec1.layout) \notin KnownLayouts

C1_Witness ==
    /\ clip.pc = "done"
    /\ EmptyClip
    /\ Spec1.layout = L_legacy_single
    /\ OnlyBackground
    /\ Len(clip.result[1]) = 1

\* the place of a node in the order the claim gives
NodeRank(node) ==
    CASE node.kind = "background" -> 0
      [] node.kind \in {"scale", "canvas", "canvas_overlay", "zoompan", "blur",
                        "overlay"} -> 1
      [] node.kind = "drawtext" /\ node.role = "caption_anchored" -> 2
      [] node.kind \in {"stickman_scale", "stickman_overlay"} -> 3
      [] node.kind = "drawtext" /\ node.role = "caption_centered" -> 4
      [] node.kind = "drawtext" /\ node.role = "speech" -> 5

\* C6: in every plan the nodes come in the order background, image overlays
\* in layer order, image-anchored caption, character overlay, frame-centered
\* caption, speech caption; no node of a later kind precedes one of an
\* earlier kind.
C6_NodeOrder ==
    Planned =>
        /\ NodesOfKind("background") = {1}
        /\ \A i, j \in 1..Len(Nodes) :
              i < j => NodeRank(Nodes[i]) <= NodeRank(Nodes[j])
        /\ \A i, j \in NodesOfKind("overlay") :
              i < j => Nodes[i].idx < Nodes[j].idx
        /\ Cardinality(CaptionNodes("caption_anchored")
                       \cup CaptionNodes("caption_centered")) <= 1
        /\ Cardinality(NodesOfKind("stickman_overlay")) <= 1
        /\ Cardinality(CaptionNodes("speech")) <= 1
        /\ CaptionNodes("speech") # {} => Nodes[Len(Nodes)].role = "speech"

C6_Witness ==
    /\ Planned
    /\ Cardinality(NodesOfKind("overlay")) = 2
    /\ CaptionNodes("caption_anchored") # {}
    /\ NodesOfKind("stickman_overlay") # {}
    /\ CaptionNodes("speech") # {}

OneZoomedImageClip ==
    /\ Planned
    /\ Len(Spec1.images) = 1
    /\ Spec1.images[1].zoom_enabled
    /\ Spec1.images[1].path = P_png
    /\ Spec1.layout = L_legacy_single
    /\ Spec1.stickman = <<>>

\* the zoom factor of zoompan node i at output frame on
ZoomAt(i, on) == EvalExpr(Nodes[i].z, [name \in {"on"} |-> Q(on, 1)])

ZoomPlanShape ==
    /\ clip.total_frames * UNITS >= Spec1.duration * Spec1.fps
    /\ (clip.total_frames - 1) * UNITS < Spec1.duration * Spec1.fps
    /\ (Spec1.duration = 2 * UNITS /\ Spec1.fps = 25) => clip.total_frames = 50
    /\ Cardinality(NodesOfKind("overlay")) = 1
    /\ NodesOfKind("stickman_overlay") = {}
    /\ Cardinality(NodesOfKind("zoompan")) = 1
    /\ \A i \in NodesOfKind("zoompan") :
          /\ Nodes[i].d = clip.total_frames
          /\ QEq(ZoomAt(i, 0), Q(ZOOM_START_PCT, 100))

\* C9 as stated: one zoom-enabled still in the default layout without
\* character gives total_frames = ceil(d * fps), one image overlay, no
\* character node, and one zoom transform over all total_frames frames whose
\* factor is the start factor at frame 0 and the end factor at the last frame.
C9_AsStated ==
    OneZoomedImageClip =>
        /\ ZoomPlanShape
        /\ \A i \in NodesOfKind("zoompan") :
              QEq(ZoomAt(i, clip.total_frames - 1), Q(ZOOM_END_PCT, 100))

\* C9 amended: as stated, except that the factor reaches the end factor at the
\* last frame only when total_frames >= 2; a clip of a single frame
\* (d * fps <= 1) shows the start factor on its only frame.
C9_ZoomPlan ==
    OneZoomedImageClip =>
        /\ ZoomPlanShape
        /\ \A i \in NodesOfKind("zoompan") :
              IF clip.total_frames >= 2
              THEN QEq(ZoomAt(i, clip.total_frames - 1), Q(ZOOM_END_PCT, 100))
              ELSE QEq(ZoomAt(i, clip.total_frames - 1), Q(ZOOM_START_PCT, 100))

C9_Witness ==
    /\ OneZoomedImageClip
    /\ clip.pc = "done"
    /\ clip.total_frames = 50
    /\ \E i \in NodesOfKind("zoompan") : QEq(ZoomAt(i, 49), Q(ZOOM_END_PCT, 100))

-----------------------------------------------------------------------------
(* animation_curves.py: the easing curves, on rationals *)

QOne == Q(1, 1)

QHalf == Q(1, 2)

QInt(n) == Q(n, 1)

_ease_linear(t) == t

_ease_in_quad(t) == QMul(t, t)

_ease_out_quad(t) == QSub(QOne, QMul(QSub(QOne, t), QSub(QOne, t)))

\* -2 * t + 2
MinusTwoTPlusTwo(t) == QAdd(QMul(QInt(-2), t), QInt(2))

_ease_in_out_quad_NoHalving(t) ==
    IF QLt(t, QHalf)
    THEN QMul(QMul(QInt(2), t), t)
    ELSE QSub(QOne, QMul(MinusTwoTPlusTwo(t), MinusTwoTPlusTwo(t)))

_ease_in_out_quad(t) ==
    IF QLt(t, QHalf)
    THEN QMul(QMul(QInt(2), t), t)
    ELSE QSub(QOne, QDiv(QMul(MinusTwoTPlusTwo(t), MinusTwoTPlusTwo(t)), QInt(2)))

_ease_in_cubic(t) == QMul(QMul(t, t), t)

_ease_out_cubic(t) ==
    QSub(QOne, QMul(QMul(QSub(QOne, t), QSub(QOne, t)), QSub(QOne, t)))

_ease_in_out_cubic(t) ==
    IF QLt(t, QHalf)
    THEN QMul(QMul(QMul(QInt(4), t), t), t)
    ELSE QSub(QOne,
              QDiv(QMul(QMul(MinusTwoTPlusTwo(t), MinusTwoTPlusTwo(t)),
                        MinusTwoTPlusTwo(t)),
                   QInt(2)))

\* EASING_MAP.get(easing, _ease_linear)(t)
EASING_MAP(easing, t) ==
    CASE easing = "linear"       -> _ease_linear(t)
      [] easing = "ease_in"      -> _ease_in_quad(t)
      [] easing = "ease_out"     -> _ease_out_quad(t)
      [] easing = "ease_in_out"  -> _ease_in_out_quad(t)
      [] easing = "cubic_in"     -> _ease_in_cubic(t)
      [] easing = "cubic_out"    -> _ease_out_cubic(t)
      [] easing = "cubic_in_out" -> _ease_in_out_cubic(t)
      [] OTHER                   -> _ease_linear(t)

\* the curves are sampled at t = k / EaseGrid, k in 0..EaseGrid
EaseGrid == 24

MaxSamples == 2

EaseInit ==
    /\ \E name \in EasingNames : ease = [pc |-> "on", name |-> name, samples |-> <<>>]
    /\ lay = LayIdle
    /\ img = ImgIdle
    /\ clip = ClipIdle
    /\ call = CallIdle

\* one evaluation of the named curve
EvalEasing ==
    /\ ease.pc = "on"
    /\ Len(ease.samples) < MaxSamples
    /\ \E k \in 0..EaseGrid :
          ease' = [ease EXCEPT !.samples =
                      Append(@, [t |-> Q(k, EaseGrid),
                                 value |-> EASING_MAP(ease.name, Q(k, EaseGrid))])]
    /\ UNCHANGED <<lay, img, clip, call>>

EaseNext == EvalEasing

SpecEasing == EaseInit /\ [][EaseNext]_vars

\* C10: each of the seven easing curves maps 0 to 0 and 1 to 1 and is
\* monotonic non-decreasing on [0,1], also across t = 0.5 for the in-out
\* curves.
C10_EasingEndpointsMonotonic ==
    ease.pc = "on" =>
        /\ \A i \in 1..Len(ease.samples) :
              LET s == ease.samples[i]
              IN  /\ QEq(s.t, QInt(0)) => QEq(s.value, QInt(0))
                  /\ QEq(s.t, QInt(1)) => QEq(s.value, QInt(1))
        /\ \A i, j \in 1..Len(ease.samples) :
              QLe(ease.samples[i].t, ease.samples[j].t)
                  => QLe(ease.samples[i].value, ease.samples[j].value)

C10_Witness ==
    /\ ease.pc = "on"
    /\ ease.name = "cubic_in_out"
    /\ Len(ease.samples) = 2
    /\ QLt(ease.samples[1].t, QHalf)
    /\ QEq(ease.samples[2].t, QHalf)
    /\ QLt(ease.samples[1].value, ease.samples[2].value)
    /\ QEq(ease.samples[2].value, QHalf)

-----------------------------------------------------------------------------
(* animation_curves.py: scalar interpolation of keyframes.  Numbers in a   *)
(* result are rationals <<n, d>>.                                          *)

\* max(min_value, min(value, max_value))
_clamp(value, min_value, max_value) ==
    LET low == IF QLt(max_value, value) THEN max_value ELSE value
    IN  IF QLt(min_value, low) THEN low ELSE min_value

_interpolate_value(start, end, t, easing) ==
    LET factor == EASING_MAP(easing, _clamp(t, QInt(0), QOne))
    IN  QAdd(start, QMul(QSub(end, start), factor))

InterpolatedFrame(time, values) == [time |-> time, values |-> values]

\* dict(kf.value)
RawValues(kf) == [key \in DOMAIN kf.value |-> QInt(kf.value[key])]

\* current.value.get(key, nxt.value.get(key, 0.0))
StartVal(current, nxt, key) ==
    IF key \in DOMAIN current.value THEN current.value[key]
    ELSE IF key \in DOMAIN nxt.value THEN nxt.value[key]
    ELSE 0

\* nxt.value.get(key, start_val)
EndVal(current, nxt, key) ==
    IF key \in DOMAIN nxt.value THEN nxt.value[key] ELSE StartVal(current, nxt, key)

SegmentEasingOfEnd(current, nxt) == nxt.easing

\* the easing handed to _interpolate_value for a segment
SegmentEasing(current, nxt) == current.easing

\* the body of the loop over adjacent pairs, for one pair that brackets t
InterpolateSegment(current, nxt, t) ==
    LET span  == Max2(MIN_SPAN, nxt.time - current.time)
        ratio == Q(t - current.time, span)
        keys  == DOMAIN current.value \cup DOMAIN nxt.value
    IN  InterpolatedFrame(t,
            [key \in keys |->
                _interpolate_value(QInt(StartVal(current, nxt, key)),
                                   QInt(EndVal(current, nxt, key)),
                                   ratio, SegmentEasing(current, nxt))])

\* for idx in range(len(ordered) - 1): the first pair with
\* current.time <= t <= nxt.time; None (<<>>) when there is none
RECURSIVE InterpolateFrom(_, _, _)
InterpolateFrom(ordered, idx, t) ==
    IF idx > Len(ordered) - 1 THEN <<>>
    ELSE IF ordered[idx].time <= t /\ t <= ordered[idx + 1].time
         THEN <<InterpolateSegment(ordered[idx], ordered[idx + 1], t)>>
         ELSE InterpolateFrom(ordered, idx + 1, t)

interpolate_keyframes_StrictEnds(keyframes, t) ==
    IF keyframes = <<>> THEN <<>>
    ELSE LET ordered == _sorted_keyframes(keyframes)
         IN  IF t < ordered[1].time
             THEN <<InterpolatedFrame(t, RawValues(ordered[1]))>>
             ELSE IF t > ordered[Len(ordered)].time
             THEN <<InterpolatedFrame(t, RawValues(ordered[Len(ordered)]))>>
             ELSE InterpolateFrom(ordered, 1, t)

\* returns <<>> for None, else <<frame>>
interpolate_keyframes(keyframes, t) ==
    IF keyframes = <<>> THEN <<>>
    ELSE LET ordered == _sorted_keyframes(keyframes)
         IN  IF t <= ordered[1].time
             THEN <<InterpolatedFrame(t, RawValues(ordered[1]))>>
             ELSE IF t >= ordered[Len(ordered)].time
             THEN <<InterpolatedFrame(t, RawValues(ordered[Len(ordered)]))>>
             ELSE InterpolateFrom(ordered, 1, t)

(* Calls of interpolate_keyframes *)

MaxKeyframes == 3

\* keyframe times: segments shorter than, equal to and longer than MIN_SPAN
KfTimes == {0, 2, MIN_SPAN, 2 * MIN_SPAN}

\* the value map and the easing of a keyframe
KfKinds ==
    {<<[key \in {"x"} |-> 12], "ease_in_out">>,
     <<[key \in {"x", "y"} |-> IF key = "x" THEN 0 ELSE 6], "linear">>,
     <<[key \in {"x", "y"} |-> IF key = "x" THEN 4 ELSE 2], "cubic_out">>}

Keyframes == {KeyframeSpec(time, kind[1], kind[2]) : time \in KfTimes, kind \in KfKinds}

KeyframeLists == SeqsUpTo(Keyframes, MaxKeyframes)

SampleTimes == (-1)..(2 * MIN_SPAN + 1)

InterpInit ==
    /\ \E kfs \in KeyframeLists :
          call = [fn |-> "interpolate_keyframes", pc |-> "call",
                  keyframes |-> kfs, t |-> 0, ret |-> <<>>]
    /\ lay = LayIdle
    /\ img = ImgIdle
    /\ clip = ClipIdle
    /\ ease = EaseIdle

InterpolateKeyframes ==
    /\ call.fn = "interpolate_keyframes"
    /\ call.pc = "call"
    /\ \E t \in SampleTimes :
          call' = [call EXCEPT !.pc = "returned", !.t = t,
                               !.ret = interpolate_keyframes(call.keyframes, t)]
    /\ UNCHANGED <<lay, img, clip, ease>>

InterpNext == InterpolateKeyframes

SpecInterp == InterpInit /\ [][InterpNext]_vars

InterpReturned == call.fn = "interpolate_keyframes" /\ call.pc = "returned"

IsSortedByTime(kfs) == \A i \in 1..(Len(kfs) - 1) : kfs[i].time <= kfs[i + 1].time

SortedCall == InterpReturned /\ Len(call.keyframes) >= 2 /\ IsSortedByTime(call.keyframes)

FirstKf == call.keyframes[1]

LastKf == call.keyframes[Len(call.keyframes)]

ReturnsRaw(kf) == call.ret = <<InterpolatedFrame(call.t, RawValues(kf))>>

\* C11 as stated: for every keyframe sequence of length at least 2 sorted by
\* time, interpolate_keyframes at (or before) the first keyframe's time
\* returns the first keyframe's values and at (or after) the last
\* keyframe's time returns the last keyframe's values.
C11_AsStated ==
    SortedCall =>
        /\ call.t <= FirstKf.time => ReturnsRaw(FirstKf)
        /\ call.t >= LastKf.time => ReturnsRaw(LastKf)

\* C11, amended: for every keyframe sequence of length at least 2 sorted by
\* time, interpolate_keyframes returns the first keyframe's values at every
\* t at or before the first keyframe's time, and the last keyframe's values
\* at every t at or after the last keyframe's time that is also after the
\* first keyframe's time (when all keyframes share one time, that time
\* yields the first keyframe's values).
C11_EndpointsRaw ==
    SortedCall =>
        /\ call.t <= FirstKf.time => ReturnsRaw(FirstKf)
        /\ (call.t >= LastKf.time /\ call.t > FirstKf.time) => ReturnsRaw(LastKf)

C11_Witness ==
    /\ SortedCall
    /\ Len(call.keyframes) = 3
    /\ FirstKf.time < LastKf.time
    /\ call.t = LastKf.time
    /\ RawValues(FirstKf) # RawValues(LastKf)
    /\ DOMAIN FirstKf.value # DOMAIN call.keyframes[2].value
    /\ ReturnsRaw(LastKf)

\* the value of key at kf, or at the other end of the segment when kf lacks it
SideValue(kf, other, key) ==
    IF key \in DOMAIN kf.value THEN kf.value[key] ELSE other.value[key]

\* start + (end - start) * E(clamp((t - start.time) / divisor, 0, 1)), E the
\* curve named by the segment-start keyframe
BlendAt(start, end, key, t, divisor) ==
    LET ratio  == Q(t - start.time, divisor)
        r01    == IF QLt(ratio, QInt(0)) THEN QInt(0)
                  ELSE IF QLt(QOne, ratio) THEN QOne ELSE ratio
        from   == QInt(SideValue(start, end, key))
        to     == QInt(SideValue(end, start, key))
    IN  QAdd(from, QMul(QSub(to, from), EASING_MAP(start.easing, r01)))

\* t lies strictly between the adjacent keyframes i and i + 1 of the call
StrictlyInside(i) ==
    /\ i \in 1..(Len(call.keyframes) - 1)
    /\ call.keyframes[i].time < call.t
    /\ call.t < call.keyframes[i + 1].time

\* the call returned a frame that blends segment i with the given divisor
BlendsSegment(i, divisor) ==
    LET start == call.keyframes[i]
        end   == call.keyframes[i + 1]
    IN  /\ Len(call.ret) = 1
        /\ call.ret[1].time = call.t
        /\ DOMAIN call.ret[1].values = DOMAIN start.value \cup DOMAIN end.value
        /\ \A key \in DOMAIN call.ret[1].values :
              QEq(call.ret[1].values[key], BlendAt(start, end, key, call.t, divisor))

\* C12 as stated: for every sorted keyframe sequence and every t strictly
\* between two adjacent keyframes, the result is, for each key,
\* start_value + (end_value - start_value) * E(clamp((t - start.time) /
\* (end.time - start.time), 0, 1)) with E the easing of the segment-start
\* keyframe, for every segment length however short.
C12_AsStated ==
    SortedCall =>
        \A i \in 1..(Len(call.keyframes) - 1) :
            StrictlyInside(i) =>
                BlendsSegment(i, call.keyframes[i + 1].time - call.keyframes[i].time)

\* C12, amended: as stated, but the ratio's divisor is
\* max(0.0001 s, end.time - start.time): the formula of the claim holds for
\* segments of at least 0.0001 s, and a shorter segment is interpolated as
\* if it lasted 0.0001 s.
C12_SegmentBlend ==
    SortedCall =>
        \A i \in 1..(Len(call.keyframes) - 1) :
            StrictlyInside(i) =>
                BlendsSegment(i, Max2(MIN_SPAN,
                                      call.keyframes[i + 1].time - call.keyframes[i].time))

C12_Witness ==
    /\ SortedCall
    /\ Len(call.keyframes) = 3
    /\ StrictlyInside(2)
    /\ call.keyframes[2].easing = "ease_in_out"
    /\ call.keyframes[3].easing = "cubic_out"
    /\ call.keyframes[3].time - call.keyframes[2].time = 2
    /\ BlendsSegment(2, MIN_SPAN)
    /\ ~BlendsSegment(2, 2)

-----------------------------------------------------------------------------
(* ffmpeg_expressions.py: the eased fragment, built and then evaluated by  *)
(* the engine at a time t                                                  *)

\* the seven names and one that is in neither table
EasingInputs == EasingNames \cup {"bounce"}

ValuePairs == {<<0, 12>>, <<12, 0>>, <<4, 4>>, <<-3, 9>>}

EasedInit ==
    /\ \E easing \in EasingInputs, v \in ValuePairs, s \in KfTimes, e \in KfTimes :
          call = [fn |-> "build_eased_value_expr", pc |-> "call",
                  start_value |-> v[1], end_value |-> v[2],
                  start_time |-> s, end_time |-> e, easing |-> easing,
                  ret |-> <<>>, t |-> 0, value |-> <<>>]
    /\ lay = LayIdle
    /\ img = ImgIdle
    /\ clip = ClipIdle
    /\ ease = EaseIdle

BuildEasedValueExpr ==
    /\ call.fn = "build_eased_value_expr"
    /\ call.pc = "call"
    /\ call' = [call EXCEPT !.pc = "built",
                   !.ret = <<build_eased_value_expr(call.start_value, call.end_value,
                                                    call.start_time, call.end_time,
                                                    call.easing, "t")>>]
    /\ UNCHANGED <<lay, img, clip, ease>>

\* the engine evaluates the fragment with its time variable at t
EvaluateFragment ==
    /\ call.fn = "build_eased_value_expr"
    /\ call.pc = "built"
    /\ \E t \in SampleTimes :
          call' = [call EXCEPT !.pc = "evaluated", !.t = t,
                      !.value = <<EvalExpr(call.ret[1].expr, [name \in {"t"} |-> QInt(t)])>>]
    /\ UNCHANGED <<lay, img, clip, ease>>

EasedNext == BuildEasedValueExpr \/ EvaluateFragment

SpecEased == EasedInit /\ [][EasedNext]_vars

FragmentEvaluated == call.fn = "build_eased_value_expr" /\ call.pc = "evaluated"

\* clamp((t - start) / divisor, 0, 1)
ClampedRatio(divisor) ==
    LET ratio == Q(call.t - call.start_time, divisor)
    IN  IF QLt(ratio, QInt(0)) THEN QInt(0)
        ELSE IF QLt(QOne, ratio) THEN QOne ELSE ratio

\* the fragment's value is the scalar evaluator's at the ratio over divisor
FragmentMatchesScalar(divisor) ==
    QEq(call.value[1],
        _interpolate_value(QInt(call.start_value), QInt(call.end_value),
                           ClampedRatio(divisor), call.easing))

\* C13 as stated: for every easing name (an unknown one is linear), all
\* values and times and every t, the value of the fragment built by
\* build_eased_value_expr equals _interpolate_value at the ratio
\* clamp((t - start) / (end - start), 0, 1) (stated for end > start, where
\* the ratio is defined and the interval is not reversed).
C13_AsStated ==
    (FragmentEvaluated /\ call.end_time > call.start_time)
        => FragmentMatchesScalar(call.end_time - call.start_time)

\* C13, amended: as stated, with the ratio
\* clamp((t - start) / max(0.0001, end - start), 0, 1): the two realizations
\* agree at the claim's ratio whenever end - start is at least 0.0001 s, and
\* for a shorter, empty or reversed interval both divide by 0.0001 s.
C13_FragmentEqualsScalar ==
    FragmentEvaluated
        => FragmentMatchesScalar(Max2(MIN_SPAN, call.end_time - call.start_time))

C13_Witness ==
    /\ FragmentEvaluated
    /\ call.easing = "cubic_in_out"
    /\ call.end_time - call.start_time = 2 * MIN_SPAN
    /\ call.t - call.start_time = 6
    /\ call.start_value = -3
    /\ call.end_value = 9
    /\ QEq(call.value[1], Q(33, 4))
    /\ FragmentMatchesScalar(2 * MIN_SPAN)

-----------------------------------------------------------------------------
(* animation_curves.py: validate_keyframes *)

ENegativeTime == [kind |-> "negative_time"]

EUnsorted == [kind |-> "unsorted"]

EUnknownEasing(easing) == [kind |-> "unknown_easing", easing |-> easing]

KeyframeErrorsFirstOnly(kf, last_time) ==
    IF kf.time < 0 THEN <<ENegativeTime>>
    ELSE IF last_time # <<>> /\ kf.time < last_time[1] THEN <<EUnsorted>>
    ELSE IF kf.easing \notin EasingNames THEN <<EUnknownEasing(kf.easing)>>
    ELSE <<>>

\* the body of the loop for one keyframe; last_time is <<>> for None
KeyframeErrors(kf, last_time) ==
    (IF kf.time < 0 THEN <<ENegativeTime>> ELSE <<>>)
    \o (IF last_time # <<>> /\ kf.time < last_time[1] THEN <<EUnsorted>> ELSE <<>>)
    \o (IF kf.easing \notin EasingNames THEN <<EUnknownEasing(kf.easing)>> ELSE <<>>)

RECURSIVE ValidateFrom(_, _, _)
ValidateFrom(keyframes, idx, last_time) ==
    IF idx > Len(keyframes) THEN <<>>
    ELSE KeyframeErrors(keyframes[idx], last_time)
         \o ValidateFrom(keyframes, idx + 1, <<keyframes[idx].time>>)

validate_keyframes(keyframes) == ValidateFrom(keyframes, 1, <<>>)

(* Calls of validate_keyframes *)

ValidatedTimes == {-2, -1, 0, 3}

ValidatedEasings == {"linear", "cubic_in_out", "bounce", ""}

ValidatedKeyframes ==
    {KeyframeSpec(time, [key \in {"x"} |-> 0], easing) :
        time \in ValidatedTimes, easing \in ValidatedEasings}

ValidateInit ==
    /\ \E kfs \in SeqsUpTo(ValidatedKeyframes, MaxKeyframes) :
          call = [fn |-> "validate_keyframes", pc |-> "call",
                  keyframes |-> kfs, ret |-> <<>>]
    /\ lay = LayIdle
    /\ img = ImgIdle
    /\ clip = ClipIdle
    /\ ease = EaseIdle

ValidateKeyframes ==
    /\ call.fn = "validate_keyframes"
    /\ call.pc = "call"
    /\ call' = [call EXCEPT !.pc = "returned",
                            !.ret = validate_keyframes(call.keyframes)]
    /\ UNCHANGED <<lay, img, clip, ease>>

ValidateNext == ValidateKeyframes

SpecValidate == ValidateInit /\ [][ValidateNext]_vars

ValidateReturned == call.fn = "validate_keyframes" /\ call.pc = "returned"

\* how many of the returned warnings equal w
CountWarning(w) == Cardinality({j \in 1..Len(call.ret) : call.ret[j] = w})

NegativeAt == {i \in 1..Len(call.keyframes) : call.keyframes[i].time < 0}

OutOfOrderAt ==
    {i \in 2..Len(call.keyframes) : call.keyframes[i].time < call.keyframes[i - 1].time}

UnknownEasingAt(easing) ==
    {i \in 1..Len(call.keyframes) :
        call.keyframes[i].easing = easing /\ easing \notin EasingNames}

\* C14: validate_keyframes returns one negative-time warning per keyframe
\* with time < 0, one ordering warning per keyframe whose time is smaller
\* than its predecessor's, one unknown-easing warning per keyframe whose
\* easing is not one of the seven names, nothing else, and so the empty
\* list exactly when no defect is present; it always returns.
C14_ValidateIndependent ==
    ValidateReturned =>
        /\ CountWarning(ENegativeTime) = Cardinality(NegativeAt)
        /\ CountWarning(EUnsorted) = Cardinality(OutOfOrderAt)
        /\ \A easing \in ValidatedEasings :
              CountWarning(EUnknownEasing(easing)) = Cardinality(UnknownEasingAt(easing))
        /\ \A j \in 1..Len(call.ret) :
              call.ret[j] \in {ENegativeTime, EUnsorted}
                                 \cup {EUnknownEasing(easing) : easing \in ValidatedEasings}
        /\ call.ret = <<>> <=>
              /\ NegativeAt = {}
              /\ OutOfOrderAt = {}
              /\ \A easing \in ValidatedEasings : UnknownEasingAt(easing) = {}

\* a keyframe with all three defects yields three warnings
C14_Witness ==
    /\ ValidateReturned
    /\ Len(call.keyframes) = 2
    /\ call.keyframes[1].time = -1
    /\ call.keyframes[2].time = -2
    /\ call.keyframes[2].easing = "bounce"
    /\ call.keyframes[1].easing = "linear"
    /\ call.ret = <<ENegativeTime, ENegativeTime, EUnsorted, EUnknownEasing("bounce")>>

-----------------------------------------------------------------------------
(* Calls of build_stickman_animation *)

MaxTotalFrames == 12

A_unknown == <<"j","u","m","p">>

\* <<>> is no animation
Animations ==
    {<<>>,
     <<StickmanAnim(A_pop_to_final, <<>>)>>,
     <<StickmanAnim(A_Pop_sp, S_right)>>,
     <<StickmanAnim(A_walk_to_final, <<>>)>>,
     <<StickmanAnim(A_slide_to_final, <<>>)>>,
     <<StickmanAnim(A_slide_to_final, S_Right_sp)>>,
     <<StickmanAnim(A_unknown, <<>>)>>,
     <<StickmanAnim(<<>>, <<>>)>>}

\* rest positions <<final_x, final_y>>
RestPositions ==
    {<<Num(500), Num(300)>>,
     <<Sub(Sub(V("W"), V("w")), Num(STICKMAN_MARGIN_X)), Sub(V("H"), V("h"))>>}

TotalFrameCounts == (0..MaxTotalFrames) \cup {100}

AnimInit ==
    /\ \E anim \in Animations, total_frames \in TotalFrameCounts, rest \in RestPositions :
          call = [fn |-> "build_stickman_animation", pc |-> "call",
                  anim |-> anim, total_frames |-> total_frames,
                  final_x |-> rest[1], final_y |-> rest[2], ret |-> <<>>]
    /\ lay = LayIdle
    /\ img = ImgIdle
    /\ clip = ClipIdle
    /\ ease = EaseIdle

BuildStickmanAnimation ==
    /\ call.fn = "build_stickman_animation"
    /\ call.pc = "call"
    /\ call' = [call EXCEPT !.pc = "returned",
                   !.ret = build_stickman_animation(call.anim, call.total_frames,
                                                    call.final_x, call.final_y)]
    /\ UNCHANGED <<lay, img, clip, ease>>

AnimNext == BuildStickmanAnimation

SpecAnim == AnimInit /\ [][AnimNext]_vars

AnimReturned == call.fn = "build_stickman_animation" /\ call.pc = "returned"

\* the preset the call names, after strip and lower
CalledPreset == IF call.anim = <<>> THEN <<>> ELSE StrLower(StrStrip(call.anim[1].name))

PopCall ==
    AnimReturned /\ call.anim # <<>> /\ CalledPreset = A_pop_to_final
        /\ call.total_frames >= 1

\* the scale expression of the call's result at frame n
ScaleAt(n) == EvalExpr(call.ret[3], [name \in {"n"} |-> QInt(n)])

\* the frames of the clip and a few beyond
FramesOf(total_frames) == 0..(total_frames + 2)

\* C15: for the pop-in preset and every total frame count >= 1, the rest x
\* and y expressions are returned unchanged and the scale expression is 0.7
\* at frame 0, 1.0 at every frame >= max(1, int(0.3 * totalFrames)) (frame
\* 30 for 100 frames), non-decreasing and within [0.7, 1.0] at every frame.
C15_PopInScale ==
    PopCall =>
        LET held == IF (3 * call.total_frames) \div 10 >= 1
                    THEN (3 * call.total_frames) \div 10 ELSE 1
        IN  /\ call.ret[1] = call.final_x
            /\ call.ret[2] = call.final_y
            /\ QEq(ScaleAt(0), Q(7, 10))
            /\ \A n \in FramesOf(call.total_frames) :
                  /\ n >= held => QEq(ScaleAt(n), QOne)
                  /\ QLe(Q(7, 10), ScaleAt(n))
                  /\ QLe(ScaleAt(n), QOne)
                  /\ n > 0 => QLe(ScaleAt(n - 1), ScaleAt(n))
            /\ call.total_frames = 100 =>
                  /\ held = 30
                  /\ QLt(ScaleAt(29), QOne)

C15_Witness ==
    /\ PopCall
    /\ call.total_frames = 100
    /\ call.anim[1].name = A_Pop_sp
    /\ call.final_x = Num(500)
    /\ call.final_y = Num(300)
    /\ call.ret[1] = Num(500)
    /\ QEq(ScaleAt(15), Q(85, 100))
    /\ QEq(ScaleAt(30), QOne)

-----------------------------------------------------------------------------
(* main.py: character assets and process_job.  files is the set of asset  *)
(* paths that exist; the outcome of matching a trigger against the        *)
(* subtitles and the character guide is an input: <<>> when no guide item  *)
(* matches, else <<[expression, speech]>> with expression <<>> when the    *)
(* item has no "expression" key.                                           *)

STICKMAN_DEFAULT == "neutral"

\* os.path.join(STICKMAN_DIR, f"{name}.png")
AssetPath(name) == name \o ".png"

\* <<>> for None
find_stickman_by_name(name, files) ==
    IF AssetPath(name) \in files THEN <<AssetPath(name)>>
    ELSE IF AssetPath(STICKMAN_DEFAULT) \in files THEN <<AssetPath(STICKMAN_DEFAULT)>>
    ELSE <<>>

find_stickman_for_trigger(match, files) ==
    LET default_path == find_stickman_by_name(STICKMAN_DEFAULT, files)
    IN  IF default_path = <<>> THEN [path |-> "", speech |-> ""]
        ELSE IF match # <<>>
        THEN LET expr == IF match[1].expression # <<>> THEN match[1].expression[1]
                         ELSE STICKMAN_DEFAULT
                 found == find_stickman_by_name(expr, files)
             IN  [path   |-> IF found # <<>> THEN found[1] ELSE default_path[1],
                  speech |-> match[1].speech]
        ELSE [path |-> default_path[1], speech |-> ""]

\* one entry of the timeline; start is in seconds, stickman_cfg is <<>> for
\* None
TimelineItem(start, layout, image_count, stickman_position, match, stickman_cfg) ==
    [start |-> start, layout |-> layout, image_count |-> image_count,
     stickman_position |-> stickman_position, match |-> match,
     stickman_cfg |-> stickman_cfg]

\* the place of item in a list sorted by start: behind every entry that does
\* not start later (the sort is stable)
RECURSIVE InsertByStart(_, _)
InsertByStart(sorted, item) ==
    IF sorted = <<>> THEN <<item>>
    ELSE IF Head(sorted).start <= item.start
    THEN <<Head(sorted)>> \o InsertByStart(Tail(sorted), item)
    ELSE <<item>> \o sorted

RECURSIVE SortFrom(_, _, _)
SortFrom(items, i, sorted) ==
    IF i > Len(items) THEN sorted
    ELSE SortFrom(items, i + 1, InsertByStart(sorted, items[i]))

SortByStartKeepsOrder(items) == items

\* line 473: timeline.sort(key=lambda x: x["start"])
SortByStart(items) == SortFrom(items, 1, <<>>)

\* f"clip_{n:03d}.mp4"
ClipFileName(n) ==
    "clip_" \o (IF n < 10 THEN "00" ELSE IF n < 100 THEN "0" ELSE "")
            \o ToString(n) \o ".mp4"

\* os.path.join(paths.output_dir, name)
OutputPath(name) == [dir |-> "output_dir", name |-> name]

\* os.path.basename
Basename(path) == path.name

\* lines 494-496: the lines of concat.txt
ConcatLines(clip_paths) == [k \in 1..Len(clip_paths) |-> Basename(clip_paths[k])]

\* build_timeline, lines 450-452 and 467, for every item
StickmanCfgs(items, use_stickman, files) ==
    [i \in 1..Len(items) |->
        [items[i] EXCEPT !.stickman_cfg =
            IF use_stickman THEN <<find_stickman_for_trigger(items[i].match, files)>>
            ELSE <<>>]]

\* lines 559-566: the layout of the clip being prepared
ClipLayout(job) ==
    LET item == job.timeline[job.idx]
    IN  resolve_layout(item.layout, job.use_stickman, item.image_count,
                       OrDefault(item.stickman_position, job.stickman_side)).layout

\* line 574
NoStickmanCfgPath(item) == item.stickman_cfg = <<>> \/ item.stickman_cfg[1].path = ""

(* process_job as a process: pc is "start", "clips" (top of the loop),     *)
(* "render" (inside render_clip), "concat" (inside concat_job_clips),      *)
(* "done" or "failed".  invoked lists the render_clip invocations.         *)

AssetNames == {"neutral", "happy"}

Matches ==
    {<<>>,
     <<[expression |-> <<"happy">>, speech |-> "hi"]>>,
     <<[expression |-> <<"neutral">>, speech |-> ""]>>,
     <<[expression |-> <<"sad">>, speech |-> ""]>>,
     <<[expression |-> <<>>, speech |-> "hm"]>>}

\* entries starting at 0 s with every layout and match, and later entries
LaterStarts == {1, 2}

JobItems ==
    {TimelineItem(0, layout, 1, <<>>, match, <<>>) :
        layout \in {L_legacy_single, L_image_center_only}, match \in Matches}
    \cup {TimelineItem(start, L_legacy_single, 1, <<>>, <<>>, <<>>) : start \in LaterStarts}

MaxClips == 2

JobInit ==
    /\ \E names \in SUBSET AssetNames, use_stickman \in BOOLEAN,
          items \in {<<>>} \cup SeqsUpTo(JobItems, MaxClips) :
          call = [fn |-> "process_job", pc |-> "start",
                  files |-> {AssetPath(name) : name \in names},
                  use_stickman |-> use_stickman, stickman_side |-> S_left,
                  items |-> items, timeline |-> <<>>, idx |-> 1,
                  invoked |-> <<>>, rendered |-> <<>>, concat |-> <<>>,
                  error |-> ""]
    /\ lay = LayIdle
    /\ img = ImgIdle
    /\ clip = ClipIdle
    /\ ease = EaseIdle

\* lines 525-539: the timeline is built; an empty one ends the job
BuildTimeline ==
    /\ call.fn = "process_job"
    /\ call.pc = "start"
    /\ call' = [call EXCEPT
                  !.timeline = SortByStart(StickmanCfgs(call.items, call.use_stickman,
                                                        call.files)),
                  !.pc = IF call.items = <<>> THEN "done" ELSE "clips"]
    /\ UNCHANGED <<lay, img, clip, ease>>

\* lines 544-606: one iteration up to the call of render_clip
PrepareClip ==
    /\ call.fn = "process_job"
    /\ call.pc = "clips"
    /\ LET item   == call.timeline[call.idx]
           layout == ClipLayout(call)
           wanted == call.use_stickman /\ layout.stickman_pos # <<>>
       IN  IF wanted /\ NoStickmanCfgPath(item)
           THEN call' = [call EXCEPT !.pc = "failed", !.error = "stickman_not_found"]
           ELSE call' = [call EXCEPT !.pc = "render",
                           !.invoked = Append(@,
                               [clip |-> call.idx,
                                out |-> OutputPath(ClipFileName(call.idx - 1)),
                                stickman |-> IF wanted THEN <<item.stickman_cfg[1].path>>
                                             ELSE <<>>])]
    /\ UNCHANGED <<lay, img, clip, ease>>

\* lines 606-613: render_clip returns or raises; after the last clip
\* concat_job_clips writes concat.txt (lines 494-496) and starts the
\* concatenation
RenderClipReturn ==
    /\ call.fn = "process_job"
    /\ call.pc = "render"
    /\ \E raised \in BOOLEAN :
          call' = IF raised
                  THEN [call EXCEPT !.pc = "failed", !.error = "render_failed"]
                  ELSE LET rendered == Append(call.rendered,
                                              OutputPath(ClipFileName(call.idx - 1)))
                       IN  IF call.idx = Len(call.timeline)
                           THEN [call EXCEPT !.rendered = rendered, !.idx = @ + 1,
                                     !.concat = ConcatLines(rendered), !.pc = "concat"]
                           ELSE [call EXCEPT !.rendered = rendered, !.idx = @ + 1,
                                     !.pc = "clips"]
    /\ UNCHANGED <<lay, img, clip, ease>>

\* lines 611-615: concat_job_clips returns or raises (check=True)
ConcatReturn ==
    /\ call.fn = "process_job"
    /\ call.pc = "concat"
    /\ \E raised \in BOOLEAN :
          call' = IF raised
                  THEN [call EXCEPT !.pc = "failed", !.error = "concat_failed"]
                  ELSE [call EXCEPT !.pc = "done"]
    /\ UNCHANGED <<lay, img, clip, ease>>

JobNext == BuildTimeline \/ PrepareClip \/ RenderClipReturn \/ ConcatReturn

SpecJob == JobInit /\ [][JobNext]_vars

InJob == call.fn = "process_job"

\* the character asset the guide names for clip i: its expression, or the
\* default when no guide item matches or the item names no expression
NamedAsset(i) ==
    LET match == call.timeline[i].match
    IN  IF match # <<>> /\ match[1].expression # <<>>
        THEN AssetPath(match[1].expression[1])
        ELSE AssetPath(STICKMAN_DEFAULT)

\* clip i is one whose layout provides a character anchor, with overlays in use
MandatesCharacter(i) ==
    /\ call.use_stickman
    /\ ClipLayout([call EXCEPT !.idx = i]).stickman_pos # <<>>

\* C16: when character overlays are in use and the layout provides a
\* character anchor, render_clip is invoked for a clip only with a character
\* asset that exists and that is the asset named for the clip: a clip whose
\* asset does not resolve fails before its render is invoked, and an asset
\* that cannot be found is never replaced by a different one.
C16_NoSilentSubstitution ==
    InJob =>
        \A j \in 1..Len(call.invoked) :
            MandatesCharacter(call.invoked[j].clip) =>
                /\ call.invoked[j].stickman # <<>>
                /\ call.invoked[j].stickman[1] \in call.files
                /\ call.invoked[j].stickman[1] = NamedAsset(call.invoked[j].clip)

\* what the code does keep: a render is invoked for such a clip only with an
\* existing asset
RenderedAssetExists ==
    InJob =>
        \A j \in 1..Len(call.invoked) :
            MandatesCharacter(call.invoked[j].clip) =>
                /\ call.invoked[j].stickman # <<>>
                /\ call.invoked[j].stickman[1] \in call.files

-----------------------------------------------------------------------------
(* render_clip: failure and warnings *)

ClipReturned == clip.pc \in {"done", "failed"}

SlotCount == Len(clip.layout[1].image_slots)

ImageCount == Len(Spec1.images)

\* the indices (from 0) of the image layers beyond the slots
DroppedLayers == {i \in 0..(ImageCount - 1) : i >= SlotCount}

\* one dropped-image warning per layer beyond the slots, in layer order
DroppedWarnings ==
    [j \in 1..Cardinality(DroppedLayers) |->
        [kind |-> "extra_image", layout |-> clip.layout[1].name,
         path |-> Spec1.images[SlotCount + j].path]]

\* the warnings of the layout resolver for the clip
ResolverWarnings ==
    resolve_layout(Spec1.layout, Spec1.stickman # <<>>, ImageCount,
                   Spec1.stickman_position).warnings

\* C17: render_clip fails exactly when the compositor exits with a non-zero
\* status, and the failure carries the output file, the first 20 arguments
\* of the command (a proper prefix of it) and the compositor's error stream;
\* otherwise it returns the resolver's warnings followed by one warning per
\* dropped image; no warning makes it fail.
C17_FailsIffCompositorFails ==
    ClipReturned =>
        /\ clip.returncode # <<>>
        /\ clip.pc = "failed" <=> clip.returncode[1] # 0
        /\ clip.pc = "failed" =>
              /\ clip.result = <<>>
              /\ Len(clip.error) = 1
              /\ clip.error[1].out = OutFile
              /\ clip.error[1].stderr = "boom"
              /\ Len(clip.error[1].command) = 20
              /\ Len(Command(clip, OutFile)) > 20
              /\ \A k \in 1..20 : clip.error[1].command[k] = Command(clip, OutFile)[k]
              /\ clip.error[1].command[1] = "ffmpeg"
        /\ clip.pc = "done" =>
              /\ clip.error = <<>>
              /\ clip.result = <<ResolverWarnings \o DroppedWarnings>>

C17_Witness ==
    /\ clip.pc = "failed"
    /\ clip.returncode = <<1>>
    /\ Len(ResolverWarnings) >= 2
    /\ Cardinality(DroppedLayers) = 2
    /\ clip.warnings = ResolverWarnings \o DroppedWarnings
    /\ clip.error[1].command[3] = "-loop"

\* the nodes that read input i directly
ReadersOf(i) == {k \in 1..Len(Nodes) : InputLabel(i) \in {Nodes[k].ins[m] : m \in 1..Len(Nodes[k].ins)}}

\* the overlay nodes, in plan order
RECURSIVE OverlaysFrom(_)
OverlaysFrom(k) ==
    IF k > Len(Nodes) THEN <<>>
    ELSE (IF Nodes[k].kind = "overlay" THEN <<Nodes[k]>> ELSE <<>>) \o OverlaysFrom(k + 1)

\* C18: when a clip has more image layers than the layout has slots, there
\* is exactly one dropped-image warning per layer whose index is >= the
\* slot count, no node reads a dropped layer's input, and the remaining
\* layers are overlaid in their original order, layer i scaled to and
\* placed in slot i.
C18_ExtraImagesDropped ==
    (Planned /\ ImageCount > SlotCount) =>
        /\ \E head \in {SubSeq(clip.warnings, 1, Len(clip.warnings) - Len(DroppedWarnings))} :
              /\ clip.warnings = head \o DroppedWarnings
              /\ \A j \in 1..Len(head) : head[j].kind # "extra_image"
        /\ Len(DroppedWarnings) = ImageCount - SlotCount
        /\ \A i \in DroppedLayers : ReadersOf(i) = {}
        /\ Len(OverlaysFrom(1)) = SlotCount
        /\ \A i \in 0..(SlotCount - 1) :
              LET slot  == clip.layout[1].image_slots[i + 1]
                  image == Spec1.images[i + 1]
                  node  == OverlaysFrom(1)[i + 1]
              IN  /\ node.idx = i
                  /\ Cardinality(ReadersOf(i)) = 1
                  /\ \A k \in ReadersOf(i) :
                        /\ Nodes[k].kind = "scale"
                        /\ Nodes[k].w >= slot.target_w
                        /\ Nodes[k].h >= slot.target_h
                        /\ ~AllowZoom(image) =>
                              Nodes[k].w = slot.target_w /\ Nodes[k].h = slot.target_h
                  /\ (image.keyframes = <<>> /\ image.slide_direction = "") =>
                        node.x = slot.x_expr /\ node.y = slot.y_expr

C18_Witness ==
    /\ Planned
    /\ ImageCount = 3
    /\ SlotCount = 1
    /\ Len(OverlaysFrom(1)) = 1
    /\ Spec1.images[2].path # Spec1.images[3].path
    /\ Len(clip.warnings) = 2
    /\ clip.warnings = DroppedWarnings

-----------------------------------------------------------------------------
(* Calls of build_piecewise_expr *)

\* keyframes that define x only, x and y, y only
PiecewiseKinds ==
    {<<[key \in {"x"} |-> 12], "ease_in_out">>,
     <<[key \in {"x", "y"} |-> IF key = "x" THEN 0 ELSE 6], "linear">>,
     <<[key \in {"y"} |-> 2], "cubic_out">>}

PiecewiseTimes == {0, 2, 2 * MIN_SPAN}

PiecewiseKeyframes ==
    {KeyframeSpec(time, kind[1], kind[2]) : time \in PiecewiseTimes, kind \in PiecewiseKinds}

\* the static placement handed in as fallback
PiecewiseFallback == CenterX

PiecewiseInit ==
    /\ \E kfs \in SeqsUpTo(PiecewiseKeyframes, MaxKeyframes), key \in {"x", "y"} :
          call = [fn |-> "build_piecewise_expr", pc |-> "call", keyframes |-> kfs,
                  value_key |-> key, fallback |-> PiecewiseFallback, ret |-> <<>>]
    /\ lay = LayIdle
    /\ img = ImgIdle
    /\ clip = ClipIdle
    /\ ease = EaseIdle

BuildPiecewiseExpr ==
    /\ call.fn = "build_piecewise_expr"
    /\ call.pc = "call"
    /\ call' = [call EXCEPT !.pc = "returned",
                   !.ret = <<build_piecewise_expr(call.keyframes, call.value_key,
                                                  call.fallback)>>]
    /\ UNCHANGED <<lay, img, clip, ease>>

PiecewiseNext == BuildPiecewiseExpr

SpecPiecewise == PiecewiseInit /\ [][PiecewiseNext]_vars

PiecewiseReturned == call.fn = "build_piecewise_expr" /\ call.pc = "returned"

\* the keyframes of the call in time order
Ordered == _sorted_keyframes(call.keyframes)

\* the adjacent pairs (i, i + 1) that define the key on both sides
UsablePairs ==
    {i \in 1..(Len(Ordered) - 1) :
        /\ call.value_key \in DOMAIN Ordered[i].value
        /\ call.value_key \in DOMAIN Ordered[i + 1].value}

\* the usable pairs in time order
RECURSIVE UsableFrom(_)
UsableFrom(i) ==
    IF i > Len(Ordered) - 1 THEN <<>>
    ELSE (IF i \in UsablePairs THEN <<i>> ELSE <<>>) \o UsableFrom(i + 1)

\* the windows <<lo, hi>> of a chain of conditionals that ends in fallback;
\* <<"malformed">> is appended when the chain does not end in it
RECURSIVE ChainWindows(_, _)
ChainWindows(e, fallback) ==
    IF e = fallback THEN <<>>
    ELSE IF e.k = "if"
    THEN IF e.c.k = "between" /\ e.c.x = V("t")
         THEN <<<<e.c.lo, e.c.hi>>>> \o ChainWindows(e.b, fallback)
         ELSE <<"malformed">>
    ELSE <<"malformed">>

\* the engine's variables at time t
EngineEnv(t) ==
    [name \in {"t", "W", "w"} |->
        IF name = "t" THEN QInt(t) ELSE IF name = "W" THEN QInt(OUT_W) ELSE QInt(800)]

\* the usable pairs whose closed interval contains t
PairsAt(t) == {i \in UsablePairs : Ordered[i].time <= t /\ t <= Ordered[i + 1].time}

\* the scalar interpolation of pair i at t
PairValue(i, t) ==
    _interpolate_value(QInt(Ordered[i].value[call.value_key]),
                       QInt(Ordered[i + 1].value[call.value_key]),
                       Q(t - Ordered[i].time,
                         Max2(MIN_SPAN, Ordered[i + 1].time - Ordered[i].time)),
                       Ordered[i].easing)

\* C19: build_piecewise_expr returns exactly the fallback when there are
\* fewer than two keyframes or no adjacent pair defines the key on both
\* sides; otherwise a well-nested chain of conditionals, one per usable
\* adjacent pair in time order, whose value at t is the interpolation of
\* the first usable segment whose closed interval contains t, and the
\* fallback's value when no usable segment contains t.
C19_PiecewiseChain ==
    PiecewiseReturned =>
        LET expr == call.ret[1]
        IN  /\ (Len(call.keyframes) < 2 \/ UsablePairs = {}) <=> expr = call.fallback
            /\ ChainWindows(expr, call.fallback)
                  = [j \in 1..Cardinality(UsablePairs) |->
                        <<Num(Ordered[UsableFrom(1)[j]].time),
                          Num(Ordered[UsableFrom(1)[j] + 1].time)>>]
            /\ \A t \in SampleTimes :
                  QEq(EvalExpr(expr, EngineEnv(t)),
                      IF PairsAt(t) = {}
                      THEN EvalExpr(call.fallback, EngineEnv(t))
                      ELSE PairValue(CHOOSE i \in PairsAt(t) :
                                        \A j \in PairsAt(t) : i <= j, t))

\* three keyframes given out of time order, two usable pairs
C19_Witness ==
    /\ PiecewiseReturned
    /\ call.value_key = "x"
    /\ Len(call.keyframes) = 3
    /\ ~IsSortedByTime(call.keyframes)
    /\ UsablePairs = {1, 2}
    /\ Ordered[1].time < Ordered[2].time
    /\ Ordered[2].time < Ordered[3].time
    /\ Len(ChainWindows(call.ret[1], call.fallback)) = 2
    /\ Ordered[2].value["x"] # Ordered[3].value["x"]
    /\ QEq(EvalExpr(call.ret[1], EngineEnv(Ordered[2].time)),
           QInt(Ordered[2].value["x"]))

-----------------------------------------------------------------------------
(* Calls of _apply_slide *)

SlideInputs == {"left", "right", "up", "down", "", "Left", "diagonal"}

FrameRates == {1, 2, 24, FPS, 30, 60}

\* the placements of the slots of three layouts
SlotsOf(layout) == {layout.image_slots[i] : i \in 1..Len(layout.image_slots)}

FinalPlacements ==
    {<<slot.x_expr, slot.y_expr>> :
        slot \in SlotsOf(_legacy_single(TRUE, S_left))
                 \cup SlotsOf(_two_images_center(FALSE, S_left))
                 \cup SlotsOf(_stickman_left_3img(TRUE, S_left))}

\* sizes <<w, h>> of the overlaid layer
LayerSizes == {<<800, 600>>, <<OUT_W, OUT_H>>, <<1, 1>>}

SlideInit ==
    /\ \E direction \in SlideInputs, fps \in FrameRates, final \in FinalPlacements :
          call = [fn |-> "_apply_slide", pc |-> "call", final_x |-> final[1],
                  final_y |-> final[2], slide_direction |-> direction, fps |-> fps,
                  ret |-> <<>>]
    /\ lay = LayIdle
    /\ img = ImgIdle
    /\ clip = ClipIdle
    /\ ease = EaseIdle

ApplySlide ==
    /\ call.fn = "_apply_slide"
    /\ call.pc = "call"
    /\ call' = [call EXCEPT !.pc = "returned",
                   !.ret = _apply_slide(call.final_x, call.final_y,
                                        call.slide_direction, call.fps)]
    /\ UNCHANGED <<lay, img, clip, ease>>

SlideNext == ApplySlide

SpecSlide == SlideInit /\ [][SlideNext]_vars

SlideReturned == call.fn = "_apply_slide" /\ call.pc = "returned"

\* the overlay's variables at frame n for a layer of the given size
OverlayEnv(n, size) ==
    [name \in {"n", "W", "H", "w", "h"} |->
        CASE name = "n" -> QInt(n)
          [] name = "W" -> QInt(OUT_W)
          [] name = "H" -> QInt(OUT_H)
          [] name = "w" -> QInt(size[1])
          [] name = "h" -> QInt(size[2])]

SlideX(n, size) == EvalExpr(call.ret[1], OverlayEnv(n, size))

SlideY(n, size) == EvalExpr(call.ret[2], OverlayEnv(n, size))

RestX(n, size) == EvalExpr(call.final_x, OverlayEnv(n, size))

RestY(n, size) == EvalExpr(call.final_y, OverlayEnv(n, size))

\* max(1, int(slide duration * fps)), the slide duration being 0.8 s
HeldFrom(fps) == IF (8 * fps) \div 10 >= 1 THEN (8 * fps) \div 10 ELSE 1

\* C20: for the directions left, right, up and down and every frame rate,
\* the position _apply_slide produces puts the layer entirely outside the
\* frame on the sliding axis at frame 0, equals the final placement at
\* every frame >= max(1, int(slide duration * fps)), and equals it on the
\* other axis at every frame; any other direction leaves both axes at the
\* final placement.
C20_SlideEntrance ==
    SlideReturned =>
        \A size \in LayerSizes :
            LET d    == call.slide_direction
                held == HeldFrom(call.fps)
            IN  /\ d = "left"  => QLe(QInt(OUT_W), SlideX(0, size))
                /\ d = "right" => QLe(QAdd(SlideX(0, size), QInt(size[1])), QInt(0))
                /\ d = "up"    => QLe(QInt(OUT_H), SlideY(0, size))
                /\ d = "down"  => QLe(QAdd(SlideY(0, size), QInt(size[2])), QInt(0))
                /\ \A n \in 0..(held + 2) :
                      /\ n >= held =>
                            /\ QEq(SlideX(n, size), RestX(n, size))
                            /\ QEq(SlideY(n, size), RestY(n, size))
                      /\ d \in {"left", "right"} => QEq(SlideY(n, size), RestY(n, size))
                      /\ d \in {"up", "down"} => QEq(SlideX(n, size), RestX(n, size))
                /\ d \in {"left", "right"} => call.ret[2] = call.final_y
                /\ d \in {"up", "down"} => call.ret[1] = call.final_x
                /\ d \notin {"left", "right", "up", "down"}
                      => call.ret = <<call.final_x, call.final_y>>

\* a layer sliding in from the left edge at 25 frames per second: off-frame
\* at frame 0, on its way at frame 19, at rest from frame 20
C20_Witness ==
    /\ SlideReturned
    /\ call.slide_direction = "right"
    /\ call.fps = FPS
    /\ HeldFrom(call.fps) = 20
    /\ QEq(SlideX(0, <<800, 600>>), QInt(-800))
    /\ QLt(SlideX(19, <<800, 600>>), RestX(19, <<800, 600>>))
    /\ QEq(SlideX(20, <<800, 600>>), RestX(20, <<800, 600>>))
    /\ QLt(QInt(0), RestX(20, <<800, 600>>))


-----------------------------------------------------------------------------
(* stickman_animations.py: the walk-in and slide-in presets *)

EntranceCall ==
    AnimReturned /\ call.anim # <<>>
        /\ CalledPreset \in {A_walk_to_final, A_slide_to_final}

\* the x expression of the call's result at frame n, in the overlay of the
\* character (w and h are the character's size)
CharXAt(n) == EvalExpr(call.ret[1], OverlayEnv(n, <<STICKMAN_SIZE, STICKMAN_SIZE>>))

CharRestX == EvalExpr(call.final_x, OverlayEnv(0, <<STICKMAN_SIZE, STICKMAN_SIZE>>))

\* the direction the call names, after strip and lower, left when absent
CalledDirection == StrLower(StrStrip(OrDefault(call.anim[1].direction, S_left)))

\* the start position the preset declares
DeclaredStartX ==
    IF CalledPreset = A_walk_to_final THEN QSub(CharRestX, QInt(200))
    ELSE IF CalledDirection = S_right THEN QInt(OUT_W + STICKMAN_SIZE)
    ELSE QInt(0 - STICKMAN_SIZE)

\* max(1, int(totalFrames * fraction)), fraction 0.6 for walk-in, 0.4 for
\* slide-in
EntranceBoundary ==
    LET tenths == IF CalledPreset = A_walk_to_final THEN 6 ELSE 4
        frames == (call.total_frames * tenths) \div 10
    IN  IF frames >= 1 THEN frames ELSE 1

\* the divisor of the ramp in if(lt(n,frames),start+(final-start)*n/frames,final)
RampDivisor(e) == e.a.b.b

\* C21: for the walk-in and slide-in presets and every total frame count
\* >= 0, the x expression is the declared start position at frame 0 (rest x
\* - 200; -characterSize from the left, frameWidth + characterSize from the
\* right) and the rest x at every frame >= max(1, int(totalFrames *
\* fraction)), fraction 0.6 and 0.4; the scale is constantly 1.0 and the
\* divisor is never zero.
C21_EntranceX ==
    EntranceCall =>
        /\ QEq(CharXAt(0), DeclaredStartX)
        /\ \A n \in FramesOf(call.total_frames) :
              n >= EntranceBoundary => QEq(CharXAt(n), CharRestX)
        /\ call.ret[3] = Num(1)
        /\ ~QEq(EvalExpr(RampDivisor(call.ret[1]), OverlayEnv(0, <<0, 0>>)), QInt(0))
        /\ RampDivisor(call.ret[1]) = Num(EntranceBoundary)

C21_Witness ==
    /\ EntranceCall
    /\ CalledPreset = A_slide_to_final
    /\ call.anim[1].direction = S_Right_sp
    /\ call.total_frames = 0
    /\ call.final_x # Num(500)
    /\ QEq(CharXAt(0), QInt(OUT_W + STICKMAN_SIZE))
    /\ QEq(CharXAt(1), QInt(OUT_W - STICKMAN_SIZE - STICKMAN_MARGIN_X))


-----------------------------------------------------------------------------
(* renderer_v2.py: the image-anchored caption and its anchor image *)

\* the overlay node of the image the caption is anchored to
AnchorOverlays ==
    {i \in NodesOfKind("overlay") : Nodes[i].idx = TextAnchorSlot(Spec1)}

IsEntrance(e) == e.k = "if" /\ e.c.k = "lt" /\ e.c.a = V("n")

\* the slide entrance a position carries: <<>> when none, else
\* <<direction, entrance frames>>; the far-side ramps are extent-(...), the
\* near-side ones -size+(...)
SlideOf(x, y) ==
    IF IsEntrance(x)
    THEN <<IF x.a.k = "sub" THEN "left" ELSE "right", x.c.b>>
    ELSE IF IsEntrance(y)
    THEN <<IF y.a.k = "sub" THEN "up" ELSE "down", y.c.b>>
    ELSE <<>>

\* C22: an image-anchored caption carries the slide entrance if and only if
\* the overlay position of its anchor image carries it, with the same
\* direction and the same entrance duration; the caption never slides while
\* its anchor image is placed statically or by keyframes.
C22_CaptionSlidesWithAnchor ==
    Planned =>
        \A c \in CaptionNodes("caption_anchored") : \A o \in AnchorOverlays :
            SlideOf(Nodes[c].x, Nodes[c].y)
                = SlideOf(Nodes[o].x, Nodes[o].y)

\* what holds instead: the caption slides exactly as its anchor image's
\* slide direction says, keyframes or not
CaptionFollowsSlideDirection ==
    Planned =>
        \A c \in CaptionNodes("caption_anchored") : \A o \in AnchorOverlays :
            LET image == Spec1.images[Nodes[o].idx + 1]
                slot  == clip.layout[1].image_slots[Nodes[o].idx + 1]
                moved == _apply_slide(slot.x_expr, slot.y_expr, image.slide_direction,
                                      Spec1.fps)
            IN  SlideOf(Nodes[c].x, Nodes[c].y) = SlideOf(moved[1], moved[2])


-----------------------------------------------------------------------------
(* renderer_v2.py: the speech caption *)

\* the bindings of a text node: w and W are both the frame width, h and H
\* the frame height (the frame-centered caption of line 332 is written
\* (w-text_w)/2 for that reason); size is <<text_w, text_h>>
DrawtextEnv(n, size) ==
    [name \in {"n", "W", "H", "w", "h", "text_w", "text_h"} |->
        CASE name = "n" -> QInt(n)
          [] name \in {"W", "w"} -> QInt(OUT_W)
          [] name \in {"H", "h"} -> QInt(OUT_H)
          [] name = "text_w" -> QInt(size[1])
          [] name = "text_h" -> QInt(size[2])]

\* rendered sizes of a caption
TextSizes == {<<100, 40>>, <<301, 36>>}

\* the left edge of the character box at rest, in the character overlay
RestLeftEdge ==
    EvalExpr(clip.layout[1].stickman_pos[1],
             OverlayEnv(0, <<STICKMAN_SIZE, STICKMAN_SIZE>>))

\* rest left edge + characterSize/2 - text width/2
CenteredOverCharacter(text_w) ==
    QSub(QAdd(RestLeftEdge, Q(STICKMAN_SIZE, 2)), Q(text_w, 2))

SpeechPlanned == Planned /\ CaptionNodes("speech") # {}

\* C23: for every layout and side that yields a character anchor and every
\* animation preset, the speech caption's position does not depend on the
\* frame index or on the preset, and its horizontal position, under the
\* caption node's own bindings, is centered over the character box at its
\* rest position (rest left edge + characterSize/2 - text width/2).
C23_SpeechOverRestBox ==
    SpeechPlanned =>
        \A s \in CaptionNodes("speech") : \A size \in TextSizes :
            /\ \A n \in {1, clip.total_frames} :
                  /\ EvalExpr(Nodes[s].x, DrawtextEnv(n, size))
                        = EvalExpr(Nodes[s].x, DrawtextEnv(0, size))
                  /\ EvalExpr(Nodes[s].y, DrawtextEnv(n, size))
                        = EvalExpr(Nodes[s].y, DrawtextEnv(0, size))
            /\ QEq(EvalExpr(Nodes[s].x, DrawtextEnv(0, size)),
                   CenteredOverCharacter(size[1]))

\* the part that holds on every plan: the position is the same at every
\* frame, and it is centered over the rest box when the character stands on
\* the left
SpeechFixedAndCenteredOnLeft ==
    SpeechPlanned =>
        \A s \in CaptionNodes("speech") : \A size \in TextSizes :
            /\ \A n \in {1, clip.total_frames} :
                  /\ EvalExpr(Nodes[s].x, DrawtextEnv(n, size))
                        = EvalExpr(Nodes[s].x, DrawtextEnv(0, size))
                  /\ EvalExpr(Nodes[s].y, DrawtextEnv(n, size))
                        = EvalExpr(Nodes[s].y, DrawtextEnv(0, size))
            /\ clip.layout[1].stickman_pos[1] = Num(STICKMAN_MARGIN_X)
                  => QEq(EvalExpr(Nodes[s].x, DrawtextEnv(0, size)),
                         CenteredOverCharacter(size[1]))


-----------------------------------------------------------------------------
(* renderer_v2.py: the real-size probe of the caption's anchor image *)

\* the probe exited with a non-zero status or its output is not two integers
ProbeUnusable(r) ==
    \/ r.returncode # 0
    \/ Len(r.parts) # 2
    \/ \E k \in 1..Len(r.parts) : r.parts[k] = <<>>

AnchorImage == Spec1.images[TextAnchorSlot(Spec1) + 1]

AnchorSlot == clip.layout[1].image_slots[TextAnchorSlot(Spec1) + 1]

\* the caption position computed from the requested slot target size
CaptionAtTargetSize ==
    AnchoredTextExprs(Spec1, AnchorImage, AnchorSlot,
                      <<AnchorSlot.target_w, AnchorSlot.target_h>>)

\* C24: while one clip is compiled the real-size probe is invoked at most
\* once, only for the caption's anchor image and only when that image is not
\* zoom-enabled, and never retried; when the probe exits with a non-zero
\* status or returns output that is not two integers, the size used is the
\* requested slot target width and height and compilation goes on to the
\* compositor without a failure.
C24_ProbeOnceAndDegrades ==
    /\ clip.pc # "off" => clip.probes <= 1
    /\ clip.pc = "probe" =>
          /\ clip.probes = 0
          /\ AnchorsText(Spec1, clip.idx)
          /\ ~Spec1.images[clip.idx + 1].zoom_enabled
    /\ (clip.pc = "ffmpeg" /\ clip.probes = 1) =>
          /\ clip.error = <<>>
          /\ ProbeUnusable(clip.probe[1]) =>
                /\ clip.anchored_text_exprs = CaptionAtTargetSize
                /\ \E c \in CaptionNodes("caption_anchored") :
                      /\ Nodes[c].x = CaptionAtTargetSize[1]
                      /\ Nodes[c].y = CaptionAtTargetSize[2]
    /\ (Planned /\ clip.probes = 0) => clip.probe = <<>>

C24_Witness ==
    /\ clip.pc = "ffmpeg"
    /\ clip.probes = 1
    /\ clip.probe[1] = ProbeResult(0, <<<<800>>, <<>>>>)
    /\ Len(Spec1.images) = 2
    /\ TextAnchorSlot(Spec1) = 1
    /\ clip.anchored_text_exprs = CaptionAtTargetSize
    /\ CaptionNodes("caption_anchored") # {}


-----------------------------------------------------------------------------
(* renderer_v2.py: render_clip while it waits for the probe *)

\* the steps render_clip can take without the probe's answer
StepWithoutProbeAnswer == RenderStart \/ CompositorReturn

WaitingForProbe == clip.pc = "probe"

\* C25: the real-size probe is timeout-bounded: if the probe process never
\* returns, compilation still proceeds after a bounded wait with the
\* requested target size and reaches the compositor invocation; so while
\* render_clip waits for the probe it has a step that does not take the
\* probe's answer.
C25_ProbeTimeoutBounded == WaitingForProbe => ENABLED StepWithoutProbeAnswer

\* what holds: the only way on from the wait is the probe's answer
OnlyProbeAnswerResumes ==
    [][WaitingForProbe => (clip'.pc = "ffmpeg" /\ clip'.probe # <<>>)]_vars


-----------------------------------------------------------------------------
(* main.py: the order of the clips in process_job *)

TimelineBuilt == InJob /\ call.pc # "start"

\* how often entry x occurs in a list
Occurrences(list, x) == Cardinality({i \in 1..Len(list) : list[i] = x})

\* the entries as build_timeline's loop appended them, before the sort
AppendedEntries == StickmanCfgs(call.items, call.use_stickman, call.files)

\* C26: the clips are rendered and handed to concatenation in ascending
\* order of their timeline start: the k-th timeline entry (from 0, after
\* sorting by start) is rendered to clip file number k, the concatenation
\* list names the clip files in exactly that order with none missing or
\* repeated, and concatenation is invoked only after every clip of the job
\* has been rendered successfully.
C26_ClipsInStartOrder ==
    TimelineBuilt =>
        /\ Len(call.timeline) = Len(AppendedEntries)
        /\ \A i \in 1..Len(AppendedEntries) :
              Occurrences(call.timeline, AppendedEntries[i])
                  = Occurrences(AppendedEntries, AppendedEntries[i])
        /\ \A i, j \in 1..Len(call.timeline) :
              i < j => call.timeline[i].start <= call.timeline[j].start
        /\ \A k \in 1..Len(call.invoked) :
              /\ call.invoked[k].clip = k
              /\ call.invoked[k].out.name = ClipFileName(k - 1)
        /\ Len(call.rendered) <= Len(call.invoked)
        /\ \A k \in 1..Len(call.rendered) : call.rendered[k] = call.invoked[k].out
        /\ \A i, j \in 1..Len(call.rendered) :
              i # j => call.rendered[i] # call.rendered[j]
        /\ call.concat # <<>> =>
              /\ Len(call.rendered) = Len(call.timeline)
              /\ Len(call.concat) = Len(call.timeline)
              /\ \A k \in 1..Len(call.concat) : call.concat[k] = call.rendered[k].name
        /\ call.pc = "concat" => call.concat # <<>>
        /\ (call.pc = "done" /\ call.timeline # <<>>) => call.concat # <<>>
        /\ call.error \in {"render_failed", "stickman_not_found"} => call.concat = <<>>

C26_Witness ==
    /\ InJob
    /\ call.pc = "done"
    /\ Len(call.items) = 2
    /\ call.items[1].start = 2
    /\ call.items[2].start = 0
    /\ call.items[2].layout = L_image_center_only
    /\ call.timeline[1].layout = L_image_center_only
    /\ call.concat = <<"clip_000.mp4", "clip_001.mp4">>


-----------------------------------------------------------------------------
(* main.py: build_timeline's grouping pass _build_parent_links.  A guide    *)
(* entry is [mode, layout, image_ids, image_id]: mode and layout are <<>>   *)
(* when the key is absent, image_ids is the list under "image_ids" (<<>>    *)
(* when absent or not a list), image_id the text under "image_id".  Guide   *)
(* indices count from 0 as in the code.                                     *)

M_image_only == <<"i","m","a","g","e","-","o","n","l","y">>

M_image_with_text == <<"i","m","a","g","e","-","w","i","t","h","-","t","e","x","t">>

\* str.replace("_", "-")
UnderscoreToDash(s) == [i \in 1..Len(s) |-> IF s[i] = "_" THEN "-" ELSE s[i]]

\* lines 297-299
_normalize_mode(mode_value) ==
    UnderscoreToDash(StrLower(OrDefault(mode_value, M_image_only)))

\* lines 301-302
_normalize_layout(layout_value) ==
    StrLower(StrStrip(OrDefault(layout_value, L_legacy_single)))

NonBlank(id) == StrStrip(id) # <<>>

\* lines 304-309
_get_item_image_ids(item) ==
    IF item.image_ids # <<>>
    THEN LET kept == SelectSeq(item.image_ids, NonBlank)
         IN  [k \in 1..Len(kept) |-> StrStrip(kept[k])]
    ELSE IF StrStrip(item.image_id) # <<>> THEN <<StrStrip(item.image_id)>>
    ELSE <<>>

\* line 348
RequiredSlots(layout_norm) == IF layout_norm = L_two_images_center THEN 2 ELSE 3

NeededIgnoringOwnImages(item) == RequiredSlots(_normalize_layout(item.layout))

\* lines 348-350
Needed(item) ==
    Max2(RequiredSlots(_normalize_layout(item.layout))
            - Len(_get_item_image_ids(item)), 0)

\* lines 344-347: the entry opens a composite
IsCompositeParent(item) ==
    /\ _normalize_mode(item.mode) \in {M_image_only, M_image_with_text}
    /\ _normalize_layout(item.layout) \in {L_two_images_center, L_stickman_left_3img}

\* lines 352-365: the children of the entry at index i, from offset on
RECURSIVE ChildrenFrom(_, _, _, _)
ChildrenFrom(guide, i, offset, needed) ==
    LET child_index == i + offset
    IN  IF offset > needed THEN <<>>
        ELSE IF child_index >= Len(guide) THEN <<>>
        ELSE IF _normalize_layout(guide[child_index + 1].layout)
                    \notin {L_legacy_single, L_image_center_only}
        THEN <<>>
        ELSE <<child_index>> \o ChildrenFrom(guide, i, offset + 1, needed)

\* lines 340-371: the while loop from index i on; parent_links is a function
\* from parent index to the list of its children
RECURSIVE LinksFrom(_, _, _)
LinksFrom(guide, i, parent_links) ==
    IF i >= Len(guide) THEN parent_links
    ELSE IF IsCompositeParent(guide[i + 1])
    THEN LET children == ChildrenFrom(guide, i, 1, Needed(guide[i + 1]))
         IN  LinksFrom(guide, i + 1 + Len(children),
                       IF children # <<>> THEN (i :> children) @@ parent_links
                       ELSE parent_links)
    ELSE LinksFrom(guide, i + 1, parent_links)

_build_parent_links(guide) == LinksFrom(guide, 0, <<>>)

(* Calls of _build_parent_links *)

GuideItem(mode, layout, image_ids, image_id) ==
    [mode |-> mode, layout |-> layout, image_ids |-> image_ids, image_id |-> image_id]

L_3IMG_sp == <<" ","S","t","i","c","k","m","a","n","_","L","e","f","t","_","3","I","M","G">>

M_Image_With_Text == <<"I","m","a","g","e","_","W","i","t","h","_","T","e","x","t">>

M_text_only == <<"t","e","x","t","-","o","n","l","y">>

Id_a == <<"a">>

Id_blank == <<" ">>

GuideItems ==
    {GuideItem(<<>>, L_two_images_center, <<>>, Id_a),
     GuideItem(M_Image_With_Text, L_3IMG_sp, <<Id_blank>>, Id_a),
     GuideItem(<<>>, L_stickman_left_3img, <<Id_a, Id_blank>>, <<>>),
     GuideItem(M_text_only, L_two_images_center, <<>>, <<>>),
     GuideItem(<<>>, L_two_images_center, <<Id_a, Id_a>>, <<>>),
     GuideItem(<<>>, <<>>, <<>>, Id_a),
     GuideItem(M_text_only, L_image_center_only, <<>>, <<>>)}

MaxGuide == 4

LinksInit ==
    /\ \E guide \in SeqsUpTo(GuideItems, MaxGuide) :
          call = [fn |-> "_build_parent_links", pc |-> "call", guide |-> guide,
                  guide_after |-> <<>>, ret |-> <<>>]
    /\ lay = LayIdle
    /\ img = ImgIdle
    /\ clip = ClipIdle
    /\ ease = EaseIdle

\* the pass reads the guide and writes nothing but its own dictionary
BuildParentLinks ==
    /\ call.fn = "_build_parent_links"
    /\ call.pc = "call"
    /\ call' = [call EXCEPT !.pc = "returned", !.guide_after = call.guide,
                   !.ret = _build_parent_links(call.guide)]
    /\ UNCHANGED <<lay, img, clip, ease>>

LinksNext == BuildParentLinks

SpecLinks == LinksInit /\ [][LinksNext]_vars

LinksReturned == call.fn = "_build_parent_links" /\ call.pc = "returned"

Parents == DOMAIN call.ret

ChildrenOf(p) == {call.ret[p][k] : k \in 1..Len(call.ret[p])}

\* C27: the grouping pass partitions guide entries into composites: every
\* guide index is a child of at most one parent, no index is both a parent
\* and a child, the children of a parent are the contiguous entries right
\* after it, every child has layout legacy_single or image_center_only, a
\* parent owns at most (required slot count - its own image count)
\* children, and the guide entries are not modified by the pass.
C27_ParentLinksPartition ==
    LinksReturned =>
        /\ \A p \in Parents :
              /\ p \in 0..(Len(call.guide) - 1)
              /\ call.ret[p] # <<>>
              /\ \A k \in 1..Len(call.ret[p]) :
                    /\ call.ret[p][k] = p + k
                    /\ call.ret[p][k] < Len(call.guide)
                    /\ call.ret[p][k] \notin Parents
                    /\ StrLower(StrStrip(OrDefault(call.guide[p + k + 1].layout,
                                                   L_legacy_single)))
                          \in {L_legacy_single, L_image_center_only}
              /\ \A q \in Parents : p # q => ChildrenOf(p) \cap ChildrenOf(q) = {}
              /\ LET own == Len(_get_item_image_ids(call.guide[p + 1]))
                     required ==
                         IF _normalize_layout(call.guide[p + 1].layout) = L_two_images_center
                         THEN 2 ELSE 3
                 IN  Len(call.ret[p]) <= required - own
        /\ call.guide_after = call.guide

C27_Witness ==
    /\ LinksReturned
    /\ Len(call.guide) = 4
    /\ call.guide[1] = GuideItem(M_Image_With_Text, L_3IMG_sp, <<Id_blank>>, Id_a)
    /\ Parents = {0}
    /\ call.ret[0] = <<1, 2, 3>>


-----------------------------------------------------------------------------
(* layouts.py: the geometry of the slots *)

\* the box [x0, x1) x [y0, y1) of a layer of the given size placed at <<x, y>>
BoxAt(x, y, size) ==
    LET x0 == EvalExpr(x, OverlayEnv(0, size))
        y0 == EvalExpr(y, OverlayEnv(0, size))
    IN  [x0 |-> x0, x1 |-> QAdd(x0, QInt(size[1])),
         y0 |-> y0, y1 |-> QAdd(y0, QInt(size[2]))]

\* the box of a slot: an image that fills its target size, at the slot's place
SlotBox(slot) == BoxAt(slot.x_expr, slot.y_expr, <<slot.target_w, slot.target_h>>)

\* the box of the character at its anchor
CharacterBox(pos) == BoxAt(pos[1], pos[2], <<STICKMAN_SIZE, STICKMAN_SIZE>>)

Overlap(a, b) ==
    /\ QLt(a.x0, b.x1) /\ QLt(b.x0, a.x1)
    /\ QLt(a.y0, b.y1) /\ QLt(b.y0, a.y1)

InsideFrame(b) ==
    /\ QLe(QInt(0), b.x0) /\ QLe(b.x1, QInt(OUT_W))
    /\ QLe(QInt(0), b.y0) /\ QLe(b.y1, QInt(OUT_H))

LaySlots == LayRet.layout.image_slots

\* C28: for every layout name, has-character flag and side, every image
\* slot returned by resolve_layout has positive target width and height and
\* lies inside the output frame; the slots of one layout do not overlap
\* pairwise and are separated by exactly the layout's gap (40 horizontally
\* for two images, 24 vertically for three stacked); and when a character
\* anchor is returned, no image slot overlaps the character box.
C28_SlotGeometry ==
    LayReturned =>
        /\ \A i \in 1..Len(LaySlots) :
              /\ LaySlots[i].target_w > 0
              /\ LaySlots[i].target_h > 0
              /\ InsideFrame(SlotBox(LaySlots[i]))
              /\ LayRet.layout.stickman_pos # <<>> =>
                    /\ InsideFrame(CharacterBox(LayRet.layout.stickman_pos))
                    /\ ~Overlap(SlotBox(LaySlots[i]),
                                CharacterBox(LayRet.layout.stickman_pos))
        /\ \A i, j \in 1..Len(LaySlots) :
              i # j => ~Overlap(SlotBox(LaySlots[i]), SlotBox(LaySlots[j]))
        /\ Len(LaySlots) \in {0, 1, 2, 3}
        /\ Len(LaySlots) = 2 =>
              /\ QEq(QSub(SlotBox(LaySlots[2]).x0, SlotBox(LaySlots[1]).x1), QInt(40))
              /\ QEq(SlotBox(LaySlots[1]).y0, SlotBox(LaySlots[2]).y0)
        /\ Len(LaySlots) = 3 =>
              \A i \in 1..2 :
                 /\ QEq(QSub(SlotBox(LaySlots[i + 1]).y0, SlotBox(LaySlots[i]).y1),
                        QInt(24))
                 /\ QEq(SlotBox(LaySlots[i]).x0, SlotBox(LaySlots[i + 1]).x0)

C28_Witness ==
    /\ LayReturned
    /\ LayArgs.use_stickman
    /\ LayArgs.stickman_side = S_Right_sp
    /\ LayRet.layout.name = L_stickman_left_3img
    /\ Len(LaySlots) = 3
    /\ QEq(SlotBox(LaySlots[3]).x1, QInt(OUT_W - RESERVED_RIGHT))
    /\ QEq(CharacterBox(LayRet.layout.stickman_pos).x0,
           QInt(OUT_W - STICKMAN_SIZE - STICKMAN_MARGIN_X))


-----------------------------------------------------------------------------
(* renderer_v2.py: the caption node of a plan *)

AnchoredCaptions == CaptionNodes("caption_anchored")

CenteredCaptions == CaptionNodes("caption_centered")

\* C29: every plan for a ClipSpec with non-empty caption text contains
\* exactly one caption node and every plan for one without caption text
\* contains none; the caption is image-anchored when the anchor is top or
\* bottom and the anchor slot index names an image that is actually
\* overlaid, and frame-centered in every other case, including an anchor
\* slot index that is out of range or names a dropped image.
C29_OneCaptionNode ==
    Planned =>
        IF Spec1.text = ""
        THEN AnchoredCaptions = {} /\ CenteredCaptions = {}
        ELSE /\ Cardinality(AnchoredCaptions \cup CenteredCaptions) = 1
             /\ AnchoredCaptions # {} <=>
                   /\ StrLower(StrStrip(Spec1.text_anchor)) \in {A_top, A_bottom}
                   /\ AnchorOverlays # {}

\* the anchor slot names the second image, which the one-slot layout drops
C29_Witness ==
    /\ Planned
    /\ Spec1.text = "hello"
    /\ Spec1.text_anchor = A_bottom
    /\ Spec1.text_anchor_slot = <<1>>
    /\ Len(Spec1.images) = 2
    /\ Len(clip.layout[1].image_slots) = 1
    /\ Cardinality(NodesOfKind("overlay")) = 1
    /\ AnchoredCaptions = {}
    /\ Cardinality(CenteredCaptions) = 1


-----------------------------------------------------------------------------
(* renderer_v2.py: the plan as a compositing chain *)

\* the nodes of the main chain, each drawn over the one before
ChainKinds == {"background", "overlay", "drawtext", "stickman_overlay"}

\* the nodes that prepare one layer for its overlay
TransformKinds == {"scale", "canvas", "canvas_overlay", "zoompan", "blur"}

ChainNodes == {k \in 1..Len(Nodes) : Nodes[k].kind \in ChainKinds}

LabelsIn(k) == {Nodes[k].ins[m] : m \in 1..Len(Nodes[k].ins)}

\* the references to the inputs of the command, [0:v], [1:v], ...
InputRefs == {InputLabel(i) : i \in 0..(Len(clip.inputs) - 1)}

\* the nodes that consume what node k produced: those reading its label
\* before a later node produces the same label again
ConsumersOf(k) ==
    {m \in (k + 1)..Len(Nodes) :
        /\ Nodes[k].out \in LabelsIn(m)
        /\ \A j \in (k + 1)..(m - 1) : Nodes[j].out # Nodes[k].out}

\* the chain node before chain node k
ChainBefore(k) == {j \in ChainNodes : j < k /\ \A i \in ChainNodes : ~(j < i /\ i < k)}

\* C30: every plan is a well-formed linear compositing chain: each node of
\* the chain consumes the output of the chain node right before it, every
\* label a node consumes was produced by an earlier node and has not been
\* consumed since, each image transform's output is consumed by exactly one
\* overlay node, the background's input index is the number of image
\* layers and the character's one more, and the output mapped to the file
\* is the output of the last node of the chain.
C30_LinearChain ==
    Planned =>
        /\ \A k \in ChainNodes : \A j \in ChainBefore(k) :
              Nodes[k].ins[1] = Nodes[j].out
        /\ \A k \in 1..Len(Nodes) : \A l \in LabelsIn(k) \ InputRefs :
              \E j \in 1..(k - 1) :
                 /\ Nodes[j].out = l
                 /\ k \in ConsumersOf(j)
                 /\ ConsumersOf(j) = {k}
        /\ \A k \in 1..Len(Nodes) :
              Nodes[k].kind \in TransformKinds =>
                 /\ Cardinality(ConsumersOf(k)) = 1
                 /\ \A m \in ConsumersOf(k) :
                       Nodes[m].kind \in TransformKinds \cup {"overlay"}
        /\ \A o \in NodesOfKind("overlay") :
              /\ Nodes[o - 1].kind \in TransformKinds
              /\ ConsumersOf(o - 1) = {o}
              /\ Nodes[o].ins[2] = Nodes[o - 1].out
        /\ Nodes[1].ins = <<InputLabel(Len(Spec1.images))>>
        /\ clip.bg_i = Len(Spec1.images)
        /\ clip.inputs[clip.bg_i + 1].kind = "color"
        /\ Spec1.stickman # <<>> =>
              /\ clip.stick_i = <<Len(Spec1.images) + 1>>
              /\ clip.inputs[clip.stick_i[1] + 1].path = Spec1.stickman[1].path
        /\ \A k \in NodesOfKind("stickman_scale") :
              /\ Nodes[k].ins = <<InputLabel(Len(Spec1.images) + 1)>>
              /\ ConsumersOf(k) = {k + 1}
              /\ Nodes[k + 1].kind = "stickman_overlay"
        /\ Len(Nodes) \in ChainNodes
        /\ clip.map = Nodes[Len(Nodes)].out
        /\ ConsumersOf(Len(Nodes)) = {}

\* two zoomed, blurred stills, a caption at the second, a speaking character
C30_Witness ==
    /\ Planned
    /\ Cardinality(NodesOfKind("overlay")) = 2
    /\ Cardinality(NodesOfKind("zoompan")) = 2
    /\ Cardinality(NodesOfKind("blur")) = 2
    /\ AnchoredCaptions # {}
    /\ NodesOfKind("stickman_overlay") # {}
    /\ clip.map = "vspeech"
    /\ clip.bg_i = 2

====
